---- MODULE Spec2Model ----
(***************************************************************************)
(* snapit: chunked, acknowledged file transfer between two browser peers   *)
(* over an RTCDataChannel.  The repository holds two revisions of the      *)
(* protocol: src/frontend/peer.js ("legacy": metadata through the relay,   *)
(* no consent, cleanup on channel close) and src/frontend/src/lib/peer.js  *)
(* ("lib": metadata on the data channel, confirm() dialog).  The variable  *)
(* impl says which of the two both pages run.                              *)
(***************************************************************************)
EXTENDS Integers, Sequences, FiniteSets, TLC

(* ------------------------------ bounds -------------------------------- *)
\* the chunkSize argument of splitFileIntoChunks, scaled down from 16 KB
ChunkSize == 2
\* the largest file.size a page sends
MaxFileSize == 3
\* how many sendFile calls the sending page makes (transfer ids 1..MaxTransfers)
MaxTransfers == 2

\* the largest file.size and chunkSize handed to splitFileIntoChunks on its own
MaxSplitSize == 7
MaxSplitChunk == 3
\* how many bytes a buffer handed to decodeChunkFrame on its own may lack at
\* its end, and how long a buffer cut inside or right after its header may be
MaxCut == 2
MaxHead == 11
\* how many offers reach handleIncomingFileRequest
MaxOffers == 3
\* how many connections the relay server accepts
MaxConns == 3
\* how long the queue towards the sending page may be for a duplicated ack
\* to be added to it
MaxAcksInFlight == 3

(* -------------------------- program constants ------------------------- *)
RETRY_LIMIT == 5
CHUNK_SIZE == 16384

Impls == {"legacy", "lib"}
TransferIds == 1..MaxTransfers
\* the file sizes the sending page picks: an empty file (one empty chunk)
\* and the largest one
FileSizes == {0, MaxFileSize}

(* ----------------------------- pure helpers --------------------------- *)
Min(a, b) == IF a < b THEN a ELSE b

\* a chunk count that rounds down and adds one
TotalChunksOfFloor(size, chunkSize) == (size \div chunkSize) + 1

\* Math.ceil(file.size / chunkSize) || 1
TotalChunksOf(size, chunkSize) ==
  LET c == (size + chunkSize - 1) \div chunkSize
  IN  IF c = 0 THEN 1 ELSE c

\* the bytes of a File of the given size: byte p (1-based) has value p
FileBytes(size) == [p \in 1..size |-> p % 256]

\* splitFileIntoChunks(file, chunkSize)[index] = file.slice(start, end)
ChunkOf(size, chunkSize, index) ==
  LET start == index * chunkSize
      end == Min(start + chunkSize, size)
  IN  SubSeq(FileBytes(size), start + 1, end)

\* file.slice(start, end) of a file of the given size, as the byte range it
\* covers: both positions are clamped to the size, and the range is empty
\* when end is not beyond start
BlobSlice(size, start, end) ==
  LET from == Min(start, size)
      to == Min(end, size)
  IN  [start |-> from, end |-> IF to < from THEN from ELSE to]

\* splitFileIntoChunks(file, chunkSize): the byte range of every chunk
splitFileIntoChunks(size, chunkSize) ==
  [k \in 1..TotalChunksOf(size, chunkSize) |->
     LET index == k - 1
         start == index * chunkSize
         end == Min(start + chunkSize, size)
     IN  BlobSlice(size, start, end)]

\* buildFileMetadata(file): the fields the protocol reads
buildFileMetadata(id, size) ==
  [id |-> id, size |-> size, totalChunks |-> TotalChunksOf(size, ChunkSize)]

\* the largest chunk index a file of the model has
MaxIndex == TotalChunksOf(MaxFileSize, ChunkSize) - 1

(* ------------------------------ chunk codec --------------------------- *)
\* DataView.setUint16(.., false) / setUint32(.., false): big-endian, wrapping
U16(n) == << (n \div 256) % 256, n % 256 >>
U32(n) == << (n \div 16777216) % 256, (n \div 65536) % 256,
             (n \div 256) % 256, n % 256 >>
GetU16(b, off) == b[off + 1] * 256 + b[off + 2]
GetU32(b, off) == b[off + 1] * 16777216 + b[off + 2] * 65536
                  + b[off + 3] * 256 + b[off + 4]

\* A JavaScript string is the sequence of its UTF-16 code units.
IsHighSurrogate(u) == u \in 55296..56319
IsLowSurrogate(u) == u \in 56320..57343
IsContinuation(b) == b \in 128..191
IsAscii(seq) == \A i \in 1..Len(seq) : seq[i] < 128
\* the UTF-8 bytes of one code point
Utf8OfCodePoint(cp) ==
  IF cp < 128 THEN << cp >>
  ELSE IF cp < 2048 THEN << 192 + (cp \div 64), 128 + (cp % 64) >>
  ELSE IF cp < 65536
       THEN << 224 + (cp \div 4096), 128 + ((cp \div 64) % 64), 128 + (cp % 64) >>
       ELSE << 240 + (cp \div 262144), 128 + ((cp \div 4096) % 64),
               128 + ((cp \div 64) % 64), 128 + (cp % 64) >>
\* the UTF-16 code units of one code point
Utf16OfCodePoint(cp) ==
  IF cp < 65536 THEN << cp >>
  ELSE << 55296 + ((cp - 65536) \div 1024), 56320 + ((cp - 65536) % 1024) >>

\* new TextEncoder().encode(str): a surrogate pair is one code point, a lone
\* surrogate is encoded as U+FFFD
RECURSIVE TextEncodeUnits(_)
TextEncodeUnits(str) ==
  IF str = << >> THEN << >>
  ELSE LET u == Head(str)
       IN  IF IsHighSurrogate(u) /\ Len(str) >= 2 /\ IsLowSurrogate(str[2])
           THEN Utf8OfCodePoint(65536 + (u - 55296) * 1024 + (str[2] - 56320))
                  \o TextEncodeUnits(Tail(Tail(str)))
           ELSE IF IsHighSurrogate(u) \/ IsLowSurrogate(u)
           THEN << 239, 191, 189 >> \o TextEncodeUnits(Tail(str))
           ELSE Utf8OfCodePoint(u) \o TextEncodeUnits(Tail(str))
TextEncode(str) == IF IsAscii(str) THEN str ELSE TextEncodeUnits(str)

\* the UTF-8 decoder of new TextDecoder(): a byte that starts no well-formed
\* sequence becomes U+FFFD
RECURSIVE TextDecodeBytes(_)
TextDecodeBytes(bytes) ==
  IF bytes = << >> THEN << >>
  ELSE LET b == Head(bytes)
           n == Len(bytes)
       IN  IF b < 128 THEN << b >> \o TextDecodeBytes(Tail(bytes))
           ELSE IF b \in 194..223 /\ n >= 2 /\ IsContinuation(bytes[2])
           THEN << (b - 192) * 64 + (bytes[2] - 128) >>
                  \o TextDecodeBytes(SubSeq(bytes, 3, n))
           ELSE IF b \in 224..239 /\ n >= 3 /\ IsContinuation(bytes[2])
                   /\ IsContinuation(bytes[3])
                   /\ (b - 224) * 4096 + (bytes[2] - 128) * 64 >= 2048
                   /\ (b - 224) * 4096 + (bytes[2] - 128) * 64 \notin 55296..57343
           THEN << (b - 224) * 4096 + (bytes[2] - 128) * 64 + (bytes[3] - 128) >>
                  \o TextDecodeBytes(SubSeq(bytes, 4, n))
           ELSE IF b \in 240..244 /\ n >= 4 /\ IsContinuation(bytes[2])
                   /\ IsContinuation(bytes[3]) /\ IsContinuation(bytes[4])
                   /\ (b - 240) * 262144 + (bytes[2] - 128) * 4096 \in 65536..1114111
           THEN Utf16OfCodePoint((b - 240) * 262144 + (bytes[2] - 128) * 4096
                                 + (bytes[3] - 128) * 64 + (bytes[4] - 128))
                  \o TextDecodeBytes(SubSeq(bytes, 5, n))
           ELSE << 65533 >> \o TextDecodeBytes(Tail(bytes))
\* new TextDecoder().decode(bytes): ignoreBOM is false, so a leading byte order
\* mark EF BB BF is consumed and not part of the string
TextDecode(bytes) ==
  IF IsAscii(bytes) THEN bytes
  ELSE IF Len(bytes) >= 3 /\ SubSeq(bytes, 1, 3) = << 239, 187, 191 >>
       THEN TextDecodeBytes(SubSeq(bytes, 4, Len(bytes)))
       ELSE TextDecodeBytes(bytes)

\* the transfer id k of the protocol model is the string "t<k>"
IdString(id) == << 116, 48 + id >>
\* textEncoder.encode(transferId)
Utf8(id) == TextEncode(IdString(id))
\* textDecoder.decode(idBytes): 0 stands for every string that is no known id
Utf8Decode(bytes) ==
  LET str == TextDecode(bytes)
  IN  IF Len(str) = 2 /\ str[1] = 116 /\ str[2] - 48 \in 1..9
      THEN str[2] - 48 ELSE 0

\* encodeChunkFrame after textEncoder.encode: the frame for the id bytes
EncodeFrameBytes(idBytes, chunkIndex, payload) ==
  U16(Len(idBytes)) \o U32(chunkIndex) \o U32(Len(payload))
    \o idBytes \o payload

encodeChunkFrame(transferId, chunkIndex, payload) ==
  EncodeFrameBytes(Utf8(transferId), chunkIndex, payload)
\* encodeChunkFrame for an id given as a string
encodeChunkFrameOfString(str, chunkIndex, payload) ==
  EncodeFrameBytes(TextEncode(str), chunkIndex, payload)

\* ok = FALSE: a RangeError (DataView read or Uint8Array view out of bounds);
\* ArrayBuffer.slice clamps, so a short payload is returned as it is
DecodeFrameBytes(buffer) ==
  IF Len(buffer) < 10 \/ 10 + GetU16(buffer, 0) > Len(buffer)
  THEN [ok |-> FALSE, idBytes |-> << >>, chunkIndex |-> 0, payload |-> << >>]
  ELSE LET idLength == GetU16(buffer, 0)
           payloadLength == GetU32(buffer, 6)
           payloadStart == 10 + idLength
       IN  [ok |-> TRUE,
            idBytes |-> SubSeq(buffer, 11, 10 + idLength),
            chunkIndex |-> GetU32(buffer, 2),
            payload |-> SubSeq(buffer, payloadStart + 1,
                               Min(payloadStart + payloadLength, Len(buffer)))]

decodeChunkFrame(buffer) ==
  LET d == DecodeFrameBytes(buffer)
  IN  [ok |-> d.ok, transferId |-> IF d.ok THEN Utf8Decode(d.idBytes) ELSE 0,
       chunkIndex |-> d.chunkIndex, payload |-> d.payload]
\* decodeChunkFrame with the id as a string
decodeChunkFrameToString(buffer) ==
  LET d == DecodeFrameBytes(buffer)
  IN  [ok |-> d.ok, transferId |-> IF d.ok THEN TextDecode(d.idBytes) ELSE << >>,
       chunkIndex |-> d.chunkIndex, payload |-> d.payload]

(* ------------------------------ JS values ----------------------------- *)
\* Map: a function on the set of its keys
EmptyMap == [k \in {} |-> 0]
MapSet(m, k, v) == [x \in (DOMAIN m) \cup {k} |-> IF x = k THEN v ELSE m[x]]
MapDel(m, k) == [x \in (DOMAIN m) \ {k} |-> m[x]]

\* Array slots that hold no ArrayBuffer: null (from fill(null)) and a hole
NullSlot == << -1 >>
HoleSlot == << -2 >>
Falsy(slot) == slot = NullSlot \/ slot = HoleSlot
\* new Array(n).fill(null)
NullArray(n) == [i \in 1..n |-> NullSlot]
\* arr[i] (0-based; undefined beyond the length)
ArrayGet(arr, i) == IF i < Len(arr) THEN arr[i + 1] ELSE HoleSlot
\* arr[i] = v (0-based; writing beyond the length leaves holes)
ArraySet(arr, i, v) ==
  IF i < Len(arr) THEN [arr EXCEPT ![i + 1] = v]
  ELSE arr \o [j \in 1..(i - Len(arr)) |-> HoleSlot] \o << v >>

\* new Blob(parts): buffers are copied, null and undefined are stringified
BlobPart(slot) ==
  IF slot = NullSlot THEN << 110, 117, 108, 108 >>
  ELSE IF slot = HoleSlot THEN << 117, 110, 100, 101, 102, 105, 110, 101, 100 >>
  ELSE slot
RECURSIVE BlobOf(_)
BlobOf(parts) ==
  IF parts = << >> THEN << >> ELSE BlobPart(Head(parts)) \o BlobOf(Tail(parts))

(* ------------------------------ messages ------------------------------ *)
\* a field a message does not carry (undefined)
Undef == -1
NoMeta == [id |-> 0, size |-> 0, totalChunks |-> 0]
\* a binary message (an ArrayBuffer)
Bin(bytes) ==
  [kind |-> "bin", bytes |-> bytes, type |-> "", transferId |-> Undef,
   chunkIndex |-> Undef, receivedBytes |-> Undef, receivedChunks |-> Undef,
   metadata |-> NoMeta, reason |-> ""]
\* a text message: JSON with a type field
Ctl(type, transferId, chunkIndex) ==
  [kind |-> "text", bytes |-> << >>, type |-> type, transferId |-> transferId,
   chunkIndex |-> chunkIndex, receivedBytes |-> Undef, receivedChunks |-> Undef,
   metadata |-> NoMeta, reason |-> ""]
\* the transfer-rejected message of prepareIncomingTransfer
RejectedMsg(transferId) ==
  [Ctl("transfer-rejected", transferId, Undef) EXCEPT
     !.reason = "User declined the file transfer"]
\* the chunk-error message of processBuffer: type and reason, nothing else
ChunkErrorMsg(reason) ==
  [Ctl("chunk-error", Undef, Undef) EXCEPT !.reason = reason]
MetadataMsg(metadata) ==
  [Ctl("file-metadata", Undef, Undef) EXCEPT !.metadata = metadata]
\* sendAck's message; transfer is the incomingTransfers record
AckMsg(transferId, chunkIndex, transfer) ==
  [Ctl("chunk-ack", transferId, chunkIndex) EXCEPT
     !.receivedBytes = transfer.receivedBytes,
     !.receivedChunks = transfer.receivedChunks]

(* ------------------------------- state -------------------------------- *)
VARIABLES
  impl,               \* which revision both pages run: "legacy" or "lib"
  farEnd,             \* "snapit": the other page runs this program;
                      \* "any": an arbitrary peer, which reads at once, so the
                      \* queues towards it stay empty
  chan,               \* RTCDataChannel.readyState: "open" or "closed"
  otherChan,          \* readyState of the sending page's data channel to
                      \* another peer, on which it sends nothing
  toRcv,              \* data channel, sending page -> receiving page, in order
  toSnd,              \* data channel, receiving page -> sending page, in order
  relay,              \* signaling relay towards the receiving page (legacy)
  snd,                \* per transfer id: the sendChunksOverDataChannel call
  pendingAcks,        \* sending page: key <<id, index>> -> the attempt waiting
  timers,             \* sending page: armed ack timers <<id, index, attempt>>
  outgoingTransfers,  \* sending page (legacy): id -> bookkeeping record
  surfaced,           \* per transfer id: errors shown to the user or caller
  rejectedSeen,       \* ids whose transfer-rejected the sending page handled
  slog,               \* history: what the last control message handled by
                      \* the sending page was, when it matters
  incomingTransfers,  \* receiving page: id -> transfer record
  received,           \* receiving page: id -> blobs handed to onFileReceived
  seen,               \* history: <<id, index>>, index below totalChunks, of
                      \* the chunk frames handled since transfer id was stored
  rlog,               \* history: what the last handled chunk frame caused
  call,               \* the last call of a pure helper, with its arguments
                      \* and its result
  pendingFileRequests,   \* App: pendingFileRequestsRef, id -> the offer whose
                         \* callbacks are stored (0: no entry)
  incomingBatchBuffer,   \* App: incomingBatchBufferRef, files in arrival order
  batchTimer,            \* App: batchTimerRef, a timer id or 0 (null)
  hasShownDialog,        \* App: hasShownDialogRef
  pendingIncomingFiles,  \* App: the React state shown in the dialog (files)
  stateQueue,            \* App: setPendingIncomingFiles updates React has
                         \* queued and not yet applied in a render
  appTimers,             \* App: the armed debounce timers
  offers,                \* history: how many offers arrived so far
  burst,                 \* history: the ids offered since the debounce timer
                         \* was last started from none pending
  dialogRev,             \* which copy of IncomingFilesDialog the page runs
  isVisible,             \* IncomingFilesDialog: isVisible
  selectedFiles,         \* IncomingFilesDialog: selectedFiles, a set of ids
  dialogTimers,          \* IncomingFilesDialog: the armed 300 ms timers of
                         \* handleAccept / handleReject, oldest first
  decisions,             \* history: offer -> the callbacks invoked for it
  users,                 \* relay server: users, [id, name] in arrival order
  idCounter,             \* relay server: idCounter
  wsReadyState,            \* relay server: ws.wsReadyState of each connection
  assigned,              \* history: the ids the relay server has assigned
  relog,                 \* history: what the last relay server event did
  alog                   \* history: what the last App event did

sndVars == << snd, pendingAcks, timers, outgoingTransfers, surfaced,
             rejectedSeen, slog >>
rcvVars == << incomingTransfers, received, seen, rlog >>
vars == << impl, farEnd, chan, otherChan, toRcv, toSnd, relay, snd, pendingAcks, timers,
           outgoingTransfers, surfaced, rejectedSeen, slog, incomingTransfers,
           received, seen, rlog, call, pendingFileRequests,
           incomingBatchBuffer, batchTimer, hasShownDialog,
           pendingIncomingFiles, stateQueue, appTimers, offers, burst,
           dialogRev, isVisible, selectedFiles, dialogTimers, decisions,
           users, idCounter, wsReadyState, assigned, relog, alog >>
\* the variables of the App component
appVars == << pendingFileRequests, incomingBatchBuffer, batchTimer,
              hasShownDialog, pendingIncomingFiles, stateQueue, appTimers,
              offers, burst, dialogRev, isVisible, selectedFiles,
              dialogTimers, decisions, alog >>
protocolVars == << impl, farEnd, chan, otherChan, toRcv, toSnd, relay, sndVars,
                   rcvVars >>
\* the variables of the relay server
relayVars == << users, idCounter, wsReadyState, assigned, relog >>
\* the variables the transfer over the channel chan leaves alone
asideVars == << call, appVars, relayVars, otherChan >>

\* a queue after channel.send of msgs
Tx(queue, msgs) == IF farEnd = "snapit" THEN queue \o msgs ELSE << >>

\* The record of one sendChunksOverDataChannel call.  pc: "idle" (not called),
\* "reading" (in `await blob.arrayBuffer()`), "waiting" (in `await
\* waitForAck`), "done" (returned), "failed" (threw err).  index, attempt and
\* sentBytes are the function's locals.  The rest is history: sends (frames
\* of chunk index handed to channel.send), onlyTimeouts (every failure of
\* chunk index so far was an ack timeout), waitErr (the error of the last
\* failed wait for chunk index), sentIdx and ackedIdx (the chunk indices sent
\* and acknowledged so far), atClose (pc when the channel closed), events
\* (the objects handed to onProgress, in order; the callbacks the pages pass
\* return without throwing).
IdleSender ==
  [pc |-> "idle", size |-> 0, index |-> 0, attempt |-> 0, sentBytes |-> 0,
   err |-> "", sends |-> 0, onlyTimeouts |-> TRUE, waitErr |-> "",
   sentIdx |-> {}, ackedIdx |-> {}, atClose |-> "", events |-> << >>]
\* What the last control message handled by the sending page was.  kind:
\* "stale-ack" (a chunk-ack whose key has no record in pendingAcks),
\* "chunk-error" (a chunk-error naming the chunk that the call of transferId
\* is waiting on), "none" (any other message, or a step that is not a message)
NoSenderLog == [kind |-> "none", transferId |-> 0]
\* What the last message handled by the receiving page caused.  For a chunk
\* frame: first (its transfer was stored, its index below totalChunks, and no
\* frame for that index had been handled since the transfer was stored), dup
\* (such a frame had been handled), acked (a chunk-ack was sent), counted
\* (the counters went up), finalized (the file was delivered), missing (it
\* was delivered with a slot 0..totalChunks-1 empty).  For every message:
\* sent (the messages its handler gave to channel.send without a throw),
\* sendFailed (a channel.send of the handler threw) and threw (the handler
\* let an exception escape).  For a file-metadata:
\* userAccepted (the answer to confirm()).  For a chunk frame that was
\* counted: payloadSize (payload.byteLength), steps (what the handler did, in the order it did it: "store",
\* "progress", "ack", "finalize"; "ack-completed" for a frame acknowledged
\* because its transfer was marked completed), progress (the object handed to the
\* progress callback) and callbackThrew (the callback threw).
NoLog ==
  [kind |-> "none", transferId |-> 0, chunkIndex |-> 0, first |-> FALSE,
   dup |-> FALSE, acked |-> FALSE, counted |-> FALSE, finalized |-> FALSE,
   missing |-> FALSE, sent |-> << >>, sendFailed |-> FALSE, threw |-> FALSE,
   userAccepted |-> FALSE, payloadSize |-> 0, steps |-> << >>,
   progress |-> << >>, callbackThrew |-> FALSE]

\* a call of a pure helper.  fn: "none", "encode" (encodeChunkFrame: id,
\* index, payload -> buffer), "decode" (decodeChunkFrame: buffer -> ok,
\* outId, outIndex, outPayload; id, index and payload are the arguments the
\* buffer was encoded from), "split" (splitFileIntoChunks and
\* buildFileMetadata: size, chunkSize -> chunks, totalChunks)
NoCall ==
  [fn |-> "none", id |-> << >>, index |-> 0, payload |-> << >>,
   buffer |-> << >>, whole |-> TRUE, ok |-> TRUE, outId |-> << >>,
   outIndex |-> 0, outPayload |-> << >>, size |-> 0, chunkSize |-> 0,
   chunks |-> << >>, totalChunks |-> 0]

\* What the last App event did.  kind: "none", "offer", "expiry", "render",
\* "toggle", "click", "decide".  For an expiry: burst (the ids offered while
\* its timer chain was pending), updates (how many times
\* setPendingIncomingFiles was called) and copied (the ids of bufferCopy
\* handed to that update).  For an expiry and a render: merged (whether a
\* merge updater ran in it).  For a decide (a dialog timer ran the App's handlers): how
\* ("accept" or "reject"), files (the batch the dialog showed at the click)
\* and selected (the ids ticked at the click).
NoAppLog ==
  [kind |-> "none", burst |-> {}, updates |-> 0, copied |-> {},
   merged |-> FALSE, how |-> "none", files |-> << >>, selected |-> {}]

\* What the last event of the relay server did.  kind: "none", "connection",
\* "message", "close"; id (the connection of the event); msg (the parsed
\* message of a message event); sent (the [to, message] pairs handed to
\* ws.send of an open socket, in order); roster (the user list of the most
\* recent broadcastUsers)
NoRelayLog ==
  [kind |-> "none", id |-> 0, msg |-> << >>, sent |-> << >>, roster |-> << >>]

\* the two copies of IncomingFilesDialog
DialogRevs == {"first", "second"}

InitOf(peer, revs) ==
  /\ call = NoCall
  /\ pendingFileRequests = [id \in TransferIds |-> 0]
  /\ incomingBatchBuffer = << >>
  /\ batchTimer = 0
  /\ hasShownDialog = FALSE
  /\ pendingIncomingFiles = << >>
  /\ stateQueue = << >>
  /\ appTimers = {}
  /\ offers = 0
  /\ burst = {}
  /\ dialogRev \in revs
  /\ isVisible = FALSE
  /\ selectedFiles = {}
  /\ dialogTimers = << >>
  /\ decisions = [n \in 1..MaxOffers |-> << >>]
  /\ users = << >>
  /\ idCounter = 1
  /\ wsReadyState = [id \in 1..MaxConns |-> "NONE"]
  /\ assigned = {}
  /\ relog = NoRelayLog
  /\ alog = NoAppLog
  /\ impl \in Impls
  /\ farEnd = peer
  /\ chan = "open"
  /\ otherChan = "open"
  /\ toRcv = << >>
  /\ toSnd = << >>
  /\ relay = << >>
  /\ snd = [t \in TransferIds |-> IdleSender]
  /\ pendingAcks = EmptyMap
  /\ timers = {}
  /\ outgoingTransfers = EmptyMap
  /\ surfaced = [t \in TransferIds |-> 0]
  /\ rejectedSeen = {}
  /\ slog = NoSenderLog
  /\ incomingTransfers = EmptyMap
  /\ received = [t \in TransferIds |-> << >>]
  /\ seen = {}
  /\ rlog = NoLog

InitWith(peer) == InitOf(peer, {"first"})

(* --------------------------- sender pipeline -------------------------- *)
\* chunks.length in sendChunksOverDataChannel
ChunkCount(s) == TotalChunksOf(s.size, ChunkSize)
\* blob = chunks[index]
CurrentBlob(s) == ChunkOf(s.size, ChunkSize, s.index)
CurrentFrame(t, s) == encodeChunkFrame(t, s.index, CurrentBlob(s))

\* The retry loop entered with `attempt`, up to its first await: channel.send
\* throws on a channel that is not open, the catch counts the attempt and the
\* loop tries again at once, until the send succeeds or the limit is passed.
RECURSIVE TryLoop(_, _)
TryLoop(attempt, readyState) ==
  IF readyState = "open" THEN [outcome |-> "waiting", attempt |-> attempt]
  ELSE IF attempt + 1 > RETRY_LIMIT
       THEN [outcome |-> "thrown", attempt |-> attempt + 1]
       ELSE TryLoop(attempt + 1, readyState)

\* the sender record when the loop next suspends (pc "waiting": the frame was
\* sent and waitForAck registered) or throws (pc "failed")
SenderEnterLoop(s, attempt, readyState) ==
  LET r == TryLoop(attempt, readyState)
  IN  IF r.outcome = "waiting"
      THEN [s EXCEPT !.pc = "waiting", !.attempt = r.attempt,
                     !.sends = @ + 1, !.sentIdx = @ \cup {s.index}]
      ELSE [s EXCEPT !.pc = "failed", !.attempt = r.attempt,
                     !.err = "InvalidStateError", !.onlyTimeouts = FALSE]

\* `await blob.arrayBuffer()` returned: encode the frame, attempt = 0
SenderAfterRead(s, readyState) ==
  SenderEnterLoop([s EXCEPT !.attempt = 0, !.sends = 0, !.onlyTimeouts = TRUE,
                            !.waitErr = ""],
                  0, readyState)

\* a catch block that gives the chunk up and goes on to the next one
SenderAfterCatchSkips(s, err, readyState) ==
  IF s.index + 1 < ChunkCount(s)
  THEN SenderEnterLoop([s EXCEPT !.index = s.index + 1, !.attempt = 0,
                                 !.sends = 0, !.waitErr = err],
                       0, readyState)
  ELSE [s EXCEPT !.pc = "failed", !.attempt = s.attempt + 1, !.err = err,
                 !.waitErr = err, !.onlyTimeouts = @ /\ err = "timeout"]

\* a catch block that leaves the failed chunk behind and reads the next one
SenderAfterCatchMovesOn(s, err, readyState) ==
  IF s.index + 1 < ChunkCount(s)
  THEN [s EXCEPT !.pc = "reading", !.index = s.index + 1, !.waitErr = err]
  ELSE [s EXCEPT !.pc = "failed", !.attempt = s.attempt + 1, !.err = err,
                 !.waitErr = err, !.onlyTimeouts = @ /\ err = "timeout"]

\* a catch block that compares with >= and so gives up one attempt early
SenderAfterCatchEarly(s, err, readyState) ==
  LET attempt == s.attempt + 1
      s1 == [s EXCEPT !.onlyTimeouts = @ /\ err = "timeout", !.waitErr = err]
  IN  IF attempt >= RETRY_LIMIT
      THEN [s1 EXCEPT !.pc = "failed", !.attempt = attempt, !.err = err]
      ELSE SenderEnterLoop(s1, attempt, readyState)

\* `await waitForAck` threw err: the catch block, then the loop again
SenderAfterCatch(s, err, readyState) ==
  LET attempt == s.attempt + 1
      s1 == [s EXCEPT !.onlyTimeouts = @ /\ err = "timeout", !.waitErr = err]
  IN  IF attempt > RETRY_LIMIT
      THEN [s1 EXCEPT !.pc = "failed", !.attempt = attempt, !.err = err]
      ELSE SenderEnterLoop(s1, attempt, readyState)

\* a progress report that carries the size of the chunk, not the running sum
SenderAfterAckReportsChunk(s) ==
  LET s1 == [s EXCEPT !.sentBytes = @ + Len(CurrentBlob(s)),
                      !.ackedIdx = @ \cup {s.index},
                      !.events = Append(@, [sentBytes |-> Len(CurrentBlob(s)),
                                            totalBytes |-> s.size,
                                            sentChunks |-> s.index + 1,
                                            totalChunks |-> ChunkCount(s),
                                            chunkIndex |-> s.index])]
  IN  IF s.index + 1 < ChunkCount(s)
      THEN [s1 EXCEPT !.pc = "reading", !.index = s.index + 1]
      ELSE [s1 EXCEPT !.pc = "done"]

\* `await waitForAck` returned: count the bytes, report progress, break; then
\* the next chunk's read, or after the last chunk the end of the function
SenderAfterAck(s) ==
  LET sentBytes == s.sentBytes + Len(CurrentBlob(s))
      s1 == [s EXCEPT !.sentBytes = sentBytes,
                      !.ackedIdx = @ \cup {s.index},
                      !.events = Append(@, [sentBytes |-> sentBytes,
                                            totalBytes |-> s.size,
                                            sentChunks |-> s.index + 1,
                                            totalChunks |-> ChunkCount(s),
                                            chunkIndex |-> s.index])]
  IN  IF s.index + 1 < ChunkCount(s)
      THEN [s1 EXCEPT !.pc = "reading", !.index = s.index + 1]
      ELSE [s1 EXCEPT !.pc = "done"]

\* a call that announces completion together with the frame of its last chunk
SenderSentEarly(t, s2) ==
  IF s2.pc = "waiting"
  THEN << Bin(CurrentFrame(t, s2)) >>
       \o (IF s2.index + 1 = ChunkCount(s2)
           THEN << Ctl("transfer-complete", t, Undef) >> ELSE << >>)
  ELSE << >>

\* what the call of transfer t sent when it ran on to the record s2
SenderSent(t, s2) ==
  IF s2.pc = "waiting" THEN << Bin(CurrentFrame(t, s2)) >>
  ELSE IF s2.pc = "done" /\ chan = "open"
       THEN << Ctl("transfer-complete", t, Undef) >>
       ELSE << >>

\* bookkeeping that counts the chunk being read as acknowledged
OutgoingAfterCountsNext(og, t, s2) ==
  IF impl # "legacy" THEN og
  ELSE IF s2.pc \in {"done", "failed"} THEN MapDel(og, t)
  ELSE IF s2.pc = "reading"
       THEN MapSet(og, t, [nextChunkIndex |-> s2.index + 1,
                           lastAckedIndex |-> s2.index])
       ELSE og

\* outgoingTransfers (legacy only) after the call ran on to s2
OutgoingAfter(og, t, s2) ==
  IF impl # "legacy" THEN og
  ELSE IF s2.pc \in {"done", "failed"} THEN MapDel(og, t)
  ELSE IF s2.pc = "reading"
       THEN MapSet(og, t, [nextChunkIndex |-> s2.index,
                           lastAckedIndex |-> s2.index - 1])
       ELSE og

\* The call of transfer t ran from its await to the record s2; pa and tm are
\* pendingAcks and the timers as the event handler left them.  A call that
\* suspends in waitForAck has sent its frame, registered its key and armed a
\* timer; a call that throws surfaces one error (sendFile's alert in legacy,
\* the rejected promise of sendFile in lib).
SenderRan(t, s2, pa, tm) ==
  /\ snd' = [snd EXCEPT ![t] = s2]
  /\ pendingAcks' = IF s2.pc = "waiting"
                    THEN MapSet(pa, << t, s2.index >>, s2.attempt) ELSE pa
  /\ timers' = IF s2.pc = "waiting"
               THEN tm \cup {<< t, s2.index, s2.attempt >>} ELSE tm
  /\ toRcv' = Tx(toRcv, SenderSent(t, s2))
  /\ outgoingTransfers' = OutgoingAfter(outgoingTransfers, t, s2)
  /\ surfaced' = IF s2.pc = "failed"
                 THEN [surfaced EXCEPT ![t] = @ + 1] ELSE surfaced
  /\ UNCHANGED rejectedSeen

\* no call ran: the handler only changed the maps
SenderIdle(pa, tm) ==
  /\ pendingAcks' = pa
  /\ timers' = tm
  /\ toRcv' = Tx(toRcv, << >>)
  /\ UNCHANGED << snd, outgoingTransfers, surfaced, rejectedSeen >>

\* is the call of transfer t suspended in the wait <<t, index, attempt>>
Awaits(t, index, attempt) ==
  /\ t \in TransferIds
  /\ snd[t].pc = "waiting"
  /\ snd[t].index = index
  /\ snd[t].attempt = attempt

\* sendFile + sendChunksOverDataChannel up to the first `await`
SendFile(t, size) ==
  /\ snd[t].pc = "idle"
  /\ \A u \in TransferIds : u < t => snd[u].pc # "idle"
  /\ chan = "open"
  /\ LET s2 == [IdleSender EXCEPT !.pc = "reading", !.size = size]
         meta == << MetadataMsg(buildFileMetadata(t, size)) >>
     IN  /\ snd' = [snd EXCEPT ![t] = s2]
         /\ outgoingTransfers' = OutgoingAfter(outgoingTransfers, t, s2)
         /\ IF impl = "legacy"
            THEN relay' = Tx(relay, meta) /\ toRcv' = Tx(toRcv, << >>)
            ELSE relay' = relay /\ toRcv' = Tx(toRcv, meta)
  /\ slog' = NoSenderLog
  /\ UNCHANGED << asideVars, impl, farEnd, chan, toSnd, pendingAcks, timers, surfaced,
                  rejectedSeen, rcvVars >>

\* `await blob.arrayBuffer()` completes
ReadChunk(t) ==
  /\ snd[t].pc = "reading"
  /\ SenderRan(t, SenderAfterRead(snd[t], chan), pendingAcks, timers)
  /\ slog' = NoSenderLog
  /\ UNCHANGED << asideVars, impl, farEnd, chan, toSnd, relay, rcvVars >>

\* `await blob.arrayBuffer()` rejects (the file can no longer be read): the
\* await is outside the try block, so the call throws at once and nothing of
\* its bookkeeping is undone
ReadFails(t) ==
  /\ snd[t].pc = "reading"
  /\ snd' = [snd EXCEPT ![t] = [@ EXCEPT !.pc = "failed",
                                         !.err = "NotReadableError",
                                         !.onlyTimeouts = FALSE]]
  /\ surfaced' = [surfaced EXCEPT ![t] = @ + 1]
  /\ toRcv' = Tx(toRcv, << >>)
  /\ slog' = NoSenderLog
  /\ UNCHANGED << asideVars, impl, farEnd, chan, toSnd, relay, pendingAcks, timers,
                  outgoingTransfers, rejectedSeen, rcvVars >>

\* a timer callback that deletes the record and does not reject the promise
AckTimeoutKeepsWaiting(t, index, attempt) ==
  /\ << t, index, attempt >> \in timers
  /\ SenderIdle(MapDel(pendingAcks, << t, index >>),
                timers \ {<< t, index, attempt >>})
  /\ slog' = NoSenderLog
  /\ UNCHANGED << asideVars, impl, farEnd, chan, toSnd, relay, rcvVars >>

\* the setTimeout callback of waitForAck
AckTimeout(t, index, attempt) ==
  /\ << t, index, attempt >> \in timers
  /\ LET pa == MapDel(pendingAcks, << t, index >>)
         tm == timers \ {<< t, index, attempt >>}
     IN  IF Awaits(t, index, attempt)
         THEN SenderRan(t, SenderAfterCatch(snd[t], "timeout", chan), pa, tm)
         ELSE SenderIdle(pa, tm)
  /\ slog' = NoSenderLog
  /\ UNCHANGED << asideVars, impl, farEnd, chan, toSnd, relay, rcvVars >>

\* a resolveAck that falls back on the wait of the message's transfer when
\* the key has no record
resolveAckOfTransfer(message) ==
  LET key == << message.transferId, message.chunkIndex >>
      t == message.transferId
      hit == IF key \in DOMAIN pendingAcks THEN key
             ELSE IF t \in TransferIds /\ << t, snd[t].index >> \in DOMAIN pendingAcks
                  THEN << t, snd[t].index >> ELSE key
  IN  IF hit \notin DOMAIN pendingAcks THEN SenderIdle(pendingAcks, timers)
      ELSE LET attempt == pendingAcks[hit]
               pa == MapDel(pendingAcks, hit)
               tm == timers \ {<< hit[1], hit[2], attempt >>}
           IN  IF Awaits(hit[1], hit[2], attempt)
               THEN SenderRan(hit[1], SenderAfterAck(snd[hit[1]]), pa, tm)
               ELSE SenderIdle(pa, tm)

\* resolveAck(message)
resolveAck(message) ==
  LET key == << message.transferId, message.chunkIndex >>
  IN  IF key \notin DOMAIN pendingAcks THEN SenderIdle(pendingAcks, timers)
      ELSE LET attempt == pendingAcks[key]
               pa == MapDel(pendingAcks, key)
               tm == timers \ {<< key[1], key[2], attempt >>}
           IN  IF Awaits(key[1], key[2], attempt)
               THEN SenderRan(key[1], SenderAfterAck(snd[key[1]]), pa, tm)
               ELSE SenderIdle(pa, tm)

\* a rejectAck whose reject does not clear the timer of the wait
rejectAckKeepsTimer(message) ==
  LET key == << message.transferId, message.chunkIndex >>
  IN  IF key \notin DOMAIN pendingAcks THEN SenderIdle(pendingAcks, timers)
      ELSE LET attempt == pendingAcks[key]
               pa == MapDel(pendingAcks, key)
           IN  IF Awaits(key[1], key[2], attempt)
               THEN SenderRan(key[1],
                              SenderAfterCatch(snd[key[1]], "chunk-error", chan),
                              pa, timers)
               ELSE SenderIdle(pa, timers)

\* rejectAck(message, reason) (legacy)
rejectAck(message) ==
  LET key == << message.transferId, message.chunkIndex >>
  IN  IF key \notin DOMAIN pendingAcks THEN SenderIdle(pendingAcks, timers)
      ELSE LET attempt == pendingAcks[key]
               pa == MapDel(pendingAcks, key)
               tm == timers \ {<< key[1], key[2], attempt >>}
           IN  IF Awaits(key[1], key[2], attempt)
               THEN SenderRan(key[1],
                              SenderAfterCatch(snd[key[1]], "chunk-error", chan),
                              pa, tm)
               ELSE SenderIdle(pa, tm)

\* the history entry for a control message, from the state it arrives in
ControlLog(message) ==
  LET key == << message.transferId, message.chunkIndex >>
  IN  IF message.type = "chunk-ack" /\ key \notin DOMAIN pendingAcks
      THEN [NoSenderLog EXCEPT !.kind = "stale-ack"]
      ELSE IF /\ message.type = "chunk-error"
              /\ key \in DOMAIN pendingAcks
              /\ Awaits(key[1], key[2], pendingAcks[key])
      THEN [kind |-> "chunk-error", transferId |-> message.transferId]
      ELSE NoSenderLog

\* handleControlMessage on the sending page
SenderControl(message) ==
  IF message.type = "chunk-ack" THEN resolveAck(message)
  ELSE IF message.type = "chunk-error" /\ impl = "legacy" THEN rejectAck(message)
  ELSE IF message.type = "transfer-rejected" /\ impl = "lib"
  THEN \* alert("File transfer was rejected by the recipient.")
       /\ surfaced' = [t \in TransferIds |->
                         IF t = message.transferId THEN surfaced[t] + 1
                         ELSE surfaced[t]]
       /\ rejectedSeen' = rejectedSeen \cup ({message.transferId} \cap TransferIds)
       /\ toRcv' = Tx(toRcv, << >>)
       /\ UNCHANGED << snd, pendingAcks, timers, outgoingTransfers >>
  ELSE SenderIdle(pendingAcks, timers)

\* the data channel's close event: in-flight messages are lost; the legacy
\* page runs cleanupOnChannelClose, the lib page only logs
ChannelCloses ==
  /\ chan = "open"
  /\ chan' = "closed"
  /\ toSnd' = << >>
  /\ toRcv' = << >>
  /\ slog' = NoSenderLog
  /\ IF impl = "legacy"
     THEN LET hit == {t \in TransferIds :
                        /\ snd[t].pc = "waiting"
                        /\ << t, snd[t].index >> \in DOMAIN pendingAcks
                        /\ pendingAcks[<< t, snd[t].index >>] = snd[t].attempt}
              after == [t \in TransferIds |->
                          IF t \in hit
                          THEN SenderAfterCatch([snd[t] EXCEPT !.atClose = snd[t].pc],
                                                "closed", "closed")
                          ELSE [snd[t] EXCEPT !.atClose = snd[t].pc]]
          IN  /\ snd' = after
              /\ pendingAcks' = EmptyMap
              /\ timers' = timers \ {<< k[1], k[2], pendingAcks[k] >> :
                                       k \in DOMAIN pendingAcks}
              /\ outgoingTransfers' =
                   [t \in (DOMAIN outgoingTransfers) \ hit |-> outgoingTransfers[t]]
              /\ surfaced' = [t \in TransferIds |->
                                IF t \in hit THEN surfaced[t] + 1 ELSE surfaced[t]]
              /\ UNCHANGED rejectedSeen
     ELSE /\ snd' = [t \in TransferIds |-> [snd[t] EXCEPT !.atClose = snd[t].pc]]
          /\ UNCHANGED << pendingAcks, timers, outgoingTransfers, surfaced,
                          rejectedSeen >>
  /\ UNCHANGED << asideVars, impl, farEnd, relay, rcvVars >>

\* The close event of the data channel to the other peer, on the legacy
\* page: cleanupOnChannelClose(channel) rejects and deletes every record of
\* pendingAcks; each rejected call runs its catch block and, chan being
\* open, sends its frame again and waits again.
OtherChannelCloses ==
  /\ impl = "legacy"
  /\ otherChan = "open"
  /\ otherChan' = "closed"
  /\ LET hit == {t \in TransferIds :
                   /\ snd[t].pc = "waiting"
                   /\ << t, snd[t].index >> \in DOMAIN pendingAcks
                   /\ pendingAcks[<< t, snd[t].index >>] = snd[t].attempt}
         after == [t \in TransferIds |->
                     IF t \in hit THEN SenderAfterCatch(snd[t], "closed", chan)
                     ELSE snd[t]]
         again == {t \in hit : after[t].pc = "waiting"}
     IN  /\ snd' = after
         /\ pendingAcks' = [k \in {<< t, after[t].index >> : t \in again} |->
                             after[k[1]].attempt]
         /\ timers' = (timers \ {<< k[1], k[2], pendingAcks[k] >> :
                                    k \in DOMAIN pendingAcks})
                       \cup {<< t, after[t].index, after[t].attempt >> : t \in again}
         /\ outgoingTransfers' =
              [t \in (DOMAIN outgoingTransfers) \ (hit \ again) |->
                 outgoingTransfers[t]]
         /\ surfaced' = [t \in TransferIds |->
                           IF t \in hit \ again THEN surfaced[t] + 1
                           ELSE surfaced[t]]
         /\ LET order == SelectSeq([t \in TransferIds |-> t],
                                   LAMBDA t : t \in again)
            IN  toRcv' = Tx(toRcv, [i \in 1..Len(order) |->
                                     Bin(CurrentFrame(order[i], after[order[i]]))])
  /\ slog' = NoSenderLog
  /\ UNCHANGED << call, appVars, relayVars, impl, farEnd, chan, toSnd, relay,
                  rejectedSeen, rcvVars >>

(* -------------------------- receiver pipeline ------------------------- *)
\* sendAck(channel, transferId, chunkIndex, transfer): the messages it sends
sendAck(transferId, chunkIndex, transfer) ==
  IF chan # "open" THEN << >> ELSE << AckMsg(transferId, chunkIndex, transfer) >>

\* the record prepareIncomingTransfer stores, for a new id and for a known one
\* alike (a known transfer gets a fresh slot array and zeroed counters); the
\* legacy record has no accepted field
NewIncoming(metadata) ==
  [metadata |-> metadata, chunks |-> NullArray(metadata.totalChunks),
   receivedChunks |-> 0, receivedBytes |-> 0, completed |-> FALSE,
   accepted |-> (impl = "lib")]

\* prepareIncomingTransfer(metadata, channel, ..) of lib; userAccepted is the
\* answer to confirm()
PrepareReply(metadata, userAccepted) ==
  IF chan # "open" THEN << >>
  ELSE IF userAccepted THEN << Ctl("transfer-accepted", metadata.id, Undef) >>
  ELSE << RejectedMsg(metadata.id) >>

prepareIncomingTransferLib(metadata, userAccepted) ==
  IF ~userAccepted
  THEN /\ toSnd' = Tx(toSnd, PrepareReply(metadata, userAccepted))
       /\ UNCHANGED << incomingTransfers, received, seen >>
  ELSE /\ incomingTransfers' =
            MapSet(incomingTransfers, metadata.id, NewIncoming(metadata))
       /\ toSnd' = Tx(toSnd, PrepareReply(metadata, userAccepted))
       /\ seen' = {k \in seen : k[1] # metadata.id}
       /\ UNCHANGED received

\* prepareIncomingTransfer(metadata, fromId) of legacy
prepareIncomingTransferLegacy(metadata) ==
  /\ incomingTransfers' =
       MapSet(incomingTransfers, metadata.id, NewIncoming(metadata))
  /\ seen' = {k \in seen : k[1] # metadata.id}
  /\ UNCHANGED << toSnd, received >>

\* is some slot 0..totalChunks-1 of the transfer still empty
SlotMissing(transfer) ==
  \E i \in 0..(transfer.metadata.totalChunks - 1) :
     Falsy(ArrayGet(transfer.chunks, i))

ChunkLog(d, first, dup, acked, counted, finalized, missing) ==
  [NoLog EXCEPT !.kind = "chunk", !.transferId = d.transferId,
                !.chunkIndex = d.chunkIndex, !.first = first, !.dup = dup,
                !.acked = acked, !.counted = counted, !.finalized = finalized,
                !.missing = missing]

\* a store that counts every frame, whether or not its slot was empty
StoreChunkAlways(transfer, d) ==
  [transfer EXCEPT !.chunks = ArraySet(@, d.chunkIndex, d.payload),
                   !.receivedChunks = @ + 1,
                   !.receivedBytes = @ + Len(d.payload)]

\* a store that fills the slot and leaves the counters for later
StoreChunkSlotOnly(transfer, d) ==
  IF Falsy(ArrayGet(transfer.chunks, d.chunkIndex))
  THEN [transfer EXCEPT !.chunks = ArraySet(@, d.chunkIndex, d.payload)]
  ELSE transfer

\* `if (!transfer.chunks[chunkIndex]) { .. }`: the transfer record after it
StoreChunk(transfer, d) ==
  IF Falsy(ArrayGet(transfer.chunks, d.chunkIndex))
  THEN [transfer EXCEPT !.chunks = ArraySet(@, d.chunkIndex, d.payload),
                        !.receivedChunks = @ + 1,
                        !.receivedBytes = @ + Len(d.payload)]
  ELSE transfer

\* an early return that acknowledges the frame all the same
DropChunkAcks(d, dup) ==
  /\ rlog' = [ChunkLog(d, FALSE, dup, chan = "open", FALSE, FALSE, FALSE)
               EXCEPT !.sent = IF chan = "open"
                               THEN << Ctl("chunk-ack", d.transferId, d.chunkIndex) >>
                               ELSE << >>]
  /\ toSnd' = Tx(toSnd, IF chan = "open"
                         THEN << Ctl("chunk-ack", d.transferId, d.chunkIndex) >>
                         ELSE << >>)
  /\ UNCHANGED << incomingTransfers, received, seen >>

\* the early returns of handleIncomingChunk for an unknown transfer and for
\* one that is not accepted: a console warning, nothing else
DropChunk(d, dup) ==
  /\ rlog' = ChunkLog(d, FALSE, dup, FALSE, FALSE, FALSE, FALSE)
  /\ toSnd' = Tx(toSnd, << >>)
  /\ UNCHANGED << incomingTransfers, received, seen >>

\* a finalization that marks the transfer completed and keeps its entry
finalizeKeepsEntry(transfers, id, transfer) ==
  MapSet(transfers, id, [transfer EXCEPT !.completed = TRUE])

\* finalizeIncomingTransfer, after the file was handed over:
\* transfer.completed = true; incomingTransfers.delete(transferId)
finalizeIncomingTransfer(transfers, id, transfer) == MapDel(transfers, id)

\* handleIncomingChunk(channel, buffer, ..) for a frame that decoded to d
handleIncomingChunk(d) ==
  LET id == d.transferId
      dup == << id, d.chunkIndex >> \in seen
  IN  IF id \notin DOMAIN incomingTransfers
      THEN \* unknown transfer: return
           DropChunk(d, dup)
      ELSE
      LET transfer == incomingTransfers[id]
      IN  IF impl = "lib" /\ ~transfer.accepted
          THEN DropChunk(d, dup)
          ELSE IF transfer.completed
          THEN /\ rlog' = [ChunkLog(d, FALSE, dup, chan = "open", FALSE, FALSE,
                                     FALSE)
                            EXCEPT !.sent = sendAck(id, d.chunkIndex, transfer),
                                   !.steps = << "ack-completed" >>]
               /\ toSnd' = Tx(toSnd, sendAck(id, d.chunkIndex, transfer))
               /\ UNCHANGED << incomingTransfers, received, seen >>
          ELSE
          LET fresh == Falsy(ArrayGet(transfer.chunks, d.chunkIndex))
              t1 == StoreChunk(transfer, d)
              final == t1.receivedChunks = t1.metadata.totalChunks
              inRange == d.chunkIndex < transfer.metadata.totalChunks
              \* the progress callback runs inside try/catch, between the
              \* store and sendAck
              steps == (IF fresh THEN << "store", "progress" >> ELSE << >>)
                       \o (IF sendAck(id, d.chunkIndex, t1) # << >>
                           THEN << "ack" >> ELSE << >>)
                       \o (IF final THEN << "finalize" >> ELSE << >>)
              progress == IF fresh
                          THEN << [receivedBytes |-> t1.receivedBytes,
                                   totalBytes |-> t1.metadata.size,
                                   receivedChunks |-> t1.receivedChunks,
                                   totalChunks |-> t1.metadata.totalChunks,
                                   chunkIndex |-> d.chunkIndex] >>
                          ELSE << >>
          IN  /\ toSnd' = Tx(toSnd, sendAck(id, d.chunkIndex, t1))
              /\ seen' = IF inRange THEN seen \cup {<< id, d.chunkIndex >>} ELSE seen
              /\ \E callbackThrew \in {FALSE, fresh} :
                   rlog' = [ChunkLog(d, inRange /\ ~dup, dup, chan = "open", fresh,
                                     final, final /\ SlotMissing(t1))
                             EXCEPT !.sent = sendAck(id, d.chunkIndex, t1),
                                    !.payloadSize = IF fresh THEN Len(d.payload)
                                                    ELSE 0,
                                    !.steps = steps, !.progress = progress,
                                    !.callbackThrew = callbackThrew]
              /\ IF final
                 THEN \* finalizeIncomingTransfer: blob, onFileReceived, delete
                      /\ received' = [received EXCEPT
                                        ![id] = Append(@, BlobOf(t1.chunks))]
                      /\ incomingTransfers' =
                           finalizeIncomingTransfer(incomingTransfers, id, t1)
                 ELSE /\ incomingTransfers' = MapSet(incomingTransfers, id, t1)
                      /\ UNCHANGED received

\* error.message of the RangeError decodeChunkFrame throws
DecodeError == "RangeError"

\* processBuffer without the try around the send of chunk-error
processBufferSendEscapes(buffer) ==
  LET d == decodeChunkFrame(buffer)
  IN  IF d.ok THEN handleIncomingChunk(d)
      ELSE \E sendOk \in BOOLEAN :
             LET msgs == IF chan = "open" /\ sendOk
                         THEN << ChunkErrorMsg(DecodeError) >> ELSE << >>
             IN  /\ toSnd' = Tx(toSnd, msgs)
                 /\ rlog' = [NoLog EXCEPT !.kind = "chunk-error", !.sent = msgs,
                                          !.sendFailed = (msgs = << >>),
                                          !.threw = (msgs = << >>)]
                 /\ UNCHANGED << incomingTransfers, received, seen >>

\* processBuffer: handleIncomingChunk, and chunk-error when it throws;
\* channel.send of the chunk-error may throw (sendOk false, or a channel that
\* is not open) and the inner catch logs it
processBuffer(buffer) ==
  LET d == decodeChunkFrame(buffer)
  IN  IF d.ok THEN handleIncomingChunk(d)
      ELSE \E sendOk \in BOOLEAN :
             LET msgs == IF chan = "open" /\ sendOk
                         THEN << ChunkErrorMsg(DecodeError) >> ELSE << >>
             IN  /\ toSnd' = Tx(toSnd, msgs)
                 /\ rlog' = [NoLog EXCEPT !.kind = "chunk-error", !.sent = msgs,
                                          !.sendFailed = (msgs = << >>)]
                 /\ UNCHANGED << incomingTransfers, received, seen >>

\* the message event of the receiving page (createReceiveHandler in lib,
\* handleChannelMessage in legacy); userAccepted is read by lib's confirm()
ReceiverMessage(item, userAccepted) ==
  IF item.kind = "bin" THEN processBuffer(item.bytes)
  ELSE IF item.type = "file-metadata" /\ impl = "lib"
  THEN /\ prepareIncomingTransferLib(item.metadata, userAccepted)
       /\ rlog' = [NoLog EXCEPT !.kind = "file-metadata",
                                !.transferId = item.metadata.id,
                                !.userAccepted = userAccepted,
                                !.sent = PrepareReply(item.metadata, userAccepted)]
  ELSE \* chunk-ack with nothing pending, transfer-complete, unhandled types
       /\ toSnd' = Tx(toSnd, << >>)
       /\ rlog' = [NoLog EXCEPT !.kind = item.type]
       /\ UNCHANGED << incomingTransfers, received, seen >>

\* socket.onmessage of the legacy receiving page, for a file-metadata message
ReceiverSocketMessage(item) ==
  /\ item.type = "file-metadata"
  /\ prepareIncomingTransferLegacy(item.metadata)
  /\ rlog' = [NoLog EXCEPT !.kind = "file-metadata",
                           !.transferId = item.metadata.id]

(* ----------------- the receiving page and an arbitrary peer ----------- *)
\* payloads of the frames an arbitrary peer sends
PeerPayloads == {<< >>, << 7 >>}
\* announcements an arbitrary peer sends
PeerMetadata ==
  {MetadataMsg(buildFileMetadata(id, size)) : id \in TransferIds, size \in FileSizes}
\* binary messages an arbitrary peer sends: frames for any index up to one
\* beyond the largest, and a buffer too short to hold a header
PeerFrames ==
  {Bin(encodeChunkFrame(id, i, p)) :
     id \in TransferIds, i \in 0..(MaxIndex + 1), p \in PeerPayloads}
  \cup {Bin(<< 0, 2 >>)}

\* the peer announces a transfer (again), unless its file was delivered
PeerAnnounces(item, userAccepted) ==
  /\ chan = "open"
  /\ received[item.metadata.id] = << >>
  /\ IF impl = "lib" THEN ReceiverMessage(item, userAccepted)
     ELSE userAccepted /\ ReceiverSocketMessage(item)
  /\ UNCHANGED << asideVars, impl, farEnd, chan, toRcv, relay, sndVars >>

\* the peer sends a binary message
PeerSendsFrame(item) ==
  /\ chan = "open"
  /\ ReceiverMessage(item, TRUE)
  /\ UNCHANGED << asideVars, impl, farEnd, chan, toRcv, relay, sndVars >>

InitRecv == InitWith("any")

NextRecv ==
  \/ \E item \in PeerMetadata, userAccepted \in BOOLEAN :
       PeerAnnounces(item, userAccepted)
  \/ \E item \in PeerFrames : PeerSendsFrame(item)

SpecRecv == InitRecv /\ [][NextRecv]_vars

(* ------------------ the sending page and an arbitrary peer ------------ *)
\* the control messages an arbitrary peer sends to the sending page
PeerControlMsgs ==
  {Ctl(type, t, i) : type \in {"chunk-ack", "chunk-error"},
                     t \in TransferIds, i \in 0..MaxIndex}
  \cup {Ctl(type, t, Undef) : type \in {"transfer-rejected", "transfer-accepted"},
                              t \in TransferIds}
  \cup {ChunkErrorMsg(DecodeError)}

\* the message event of the sending page, for a text message of the peer
PeerSendsControl(message) ==
  /\ chan = "open"
  \* the peer rejects a transfer it was offered, at most once
  /\ message.type = "transfer-rejected"
       => /\ message.transferId \notin rejectedSeen
          /\ snd[message.transferId].pc # "idle"
  /\ SenderControl(message)
  /\ slog' = ControlLog(message)
  /\ UNCHANGED << asideVars, impl, farEnd, chan, toSnd, relay, rcvVars >>

InitSend == InitWith("any")

NextSend ==
  \/ \E t \in TransferIds, size \in FileSizes : SendFile(t, size)
  \/ \E t \in TransferIds : ReadChunk(t)
  \/ \E t \in TransferIds : ReadFails(t)
  \/ \E t \in TransferIds, i \in 0..MaxIndex, a \in 0..RETRY_LIMIT :
       AckTimeout(t, i, a)
  \/ \E message \in PeerControlMsgs : PeerSendsControl(message)
  \/ ChannelCloses

SpecSend == InitSend /\ [][NextSend]_vars

\* the legacy sending page with data channels to two peers
InitTwo == InitWith("any") /\ impl = "legacy"

NextTwo == NextSend \/ OtherChannelCloses

SpecTwo == InitTwo /\ [][NextTwo]_vars

\* SpecSend with the event loop's guarantees: an armed setTimeout callback
\* runs unless it is cleared, and the promise of blob.arrayBuffer() settles
SpecSendFair ==
  /\ SpecSend
  /\ \A t \in TransferIds :
       /\ WF_vars(ReadChunk(t) \/ ReadFails(t))
       /\ \A i \in 0..MaxIndex, a \in 0..RETRY_LIMIT :
            WF_vars(AckTimeout(t, i, a))

(* ------------- two pages of this program over one data channel -------- *)
\* the message event of the receiving page for the next message in flight
DeliverToReceiver(userAccepted) ==
  /\ chan = "open"
  /\ toRcv # << >>
  /\ ReceiverMessage(Head(toRcv), userAccepted)
  /\ toRcv' = Tail(toRcv)
  /\ UNCHANGED << asideVars, impl, farEnd, chan, relay, sndVars >>

\* the message event of the sending page for the next message in flight
DeliverToSender ==
  /\ chan = "open"
  /\ toSnd # << >>
  /\ SenderControl(Head(toSnd))
  /\ slog' = ControlLog(Head(toSnd))
  /\ toSnd' = Tail(toSnd)
  /\ UNCHANGED << asideVars, impl, farEnd, chan, relay, rcvVars >>

\* the relay forwards the next signaling message to the receiving page
RelayDelivers ==
  /\ relay # << >>
  /\ ReceiverSocketMessage(Head(relay))
  /\ relay' = Tail(relay)
  /\ UNCHANGED << asideVars, impl, farEnd, chan, toRcv, sndVars >>

Init == InitWith("snapit")

\* one sendFile call (transfer id 1) towards a page of the same revision
Next ==
  \/ \E size \in FileSizes : SendFile(1, size)
  \/ ReadChunk(1)
  \/ ReadFails(1)
  \/ \E i \in 0..MaxIndex, a \in 0..RETRY_LIMIT : AckTimeout(1, i, a)
  \/ \E userAccepted \in BOOLEAN : DeliverToReceiver(userAccepted)
  \/ DeliverToSender
  \/ RelayDelivers
  \/ ChannelCloses

Spec == Init /\ [][Next]_vars

(* ------------- the same two pages over a channel that fails acks ------ *)
\* the channel loses the next chunk-ack in flight
AckLost ==
  /\ chan = "open"
  /\ toSnd # << >>
  /\ Head(toSnd).type = "chunk-ack"
  /\ toSnd' = Tail(toSnd)
  /\ UNCHANGED << asideVars, impl, farEnd, chan, toRcv, relay, sndVars, rcvVars >>

\* the channel delivers the next chunk-ack in flight twice
AckDuplicated ==
  /\ chan = "open"
  /\ toSnd # << >>
  /\ Head(toSnd).type = "chunk-ack"
  /\ Len(toSnd) < MaxAcksInFlight
  /\ toSnd' = << Head(toSnd) >> \o toSnd
  /\ UNCHANGED << asideVars, impl, farEnd, chan, toRcv, relay, sndVars, rcvVars >>

NextLossy == Next \/ AckLost \/ AckDuplicated

SpecLossy == Init /\ [][NextLossy]_vars

(* ------------------- the App component's offer batching --------------- *)
\* A file of the buffer or of the presented list is fileData, built from the
\* metadata of one offer: its id and (standing for name, size, totalChunks)
\* the number of the offer it came from.
FileData(id, offer) == [id |-> id, offer |-> offer]

\* files.map(f => f.id) as a set
IdsOf(files) == {files[i].id : i \in 1..Len(files)}

\* byId.set(f.id, f) on a Map kept as its entries in insertion order: an id
\* already there keeps its place and takes the new value
SetByIdAppends(entries, f) == Append(entries, f)

SetById(entries, f) ==
  IF f.id \in IdsOf(entries)
  THEN [i \in 1..Len(entries) |->
          IF entries[i].id = f.id THEN f ELSE entries[i]]
  ELSE Append(entries, f)

RECURSIVE SetAllById(_, _)
SetAllById(entries, files) ==
  IF files = << >> THEN entries
  ELSE SetAllById(SetById(entries, Head(files)), Tail(files))

\* Array.from(byId.values()) for byId = new Map(prev.map(f => [f.id, f]))
\* followed by byId.set(f.id, f) for each f of bufferCopy
MergeById(prev, bufferCopy) == SetAllById(SetAllById(<< >>, prev), bufferCopy)

\* one queued setPendingIncomingFiles update applied to the state prev: the
\* new state and the batch buffer after it (the merge updater empties the
\* buffer as a side effect)
ApplyUpdate(update, prev, buffer) ==
  IF update.kind = "merge"
  THEN [files |-> MergeById(prev, update.files), buffer |-> << >>]
  ELSE [files |-> update.files, buffer |-> buffer]

\* the queued updates applied in order
RECURSIVE ApplyQueue(_, _, _)
ApplyQueue(queue, prev, buffer) ==
  IF queue = << >> THEN [files |-> prev, buffer |-> buffer]
  ELSE LET r == ApplyUpdate(Head(queue), prev, buffer)
       IN  ApplyQueue(Tail(queue), r.files, r.buffer)

\* handleIncomingFileRequest(metadata, onAccept, onReject)
OfferArrives(id) ==
  /\ offers < MaxOffers
  /\ offers' = offers + 1
  /\ pendingFileRequests' = [pendingFileRequests EXCEPT ![id] = offers + 1]
  /\ incomingBatchBuffer' =
       IF id \in IdsOf(incomingBatchBuffer) THEN incomingBatchBuffer
       ELSE Append(incomingBatchBuffer, FileData(id, offers + 1))
  \* clearTimeout(batchTimerRef.current), then setTimeout(.., delay)
  /\ batchTimer' = offers + 1
  /\ appTimers' = (appTimers \ {batchTimer}) \cup {offers + 1}
  /\ burst' = (IF batchTimer = 0 THEN {} ELSE burst) \cup {id}
  /\ alog' = [NoAppLog EXCEPT !.kind = "offer"]
  /\ UNCHANGED << hasShownDialog, pendingIncomingFiles, stateQueue, dialogRev,
                  isVisible, selectedFiles, dialogTimers, decisions >>
  /\ UNCHANGED << call, relayVars, protocolVars >>

\* The setTimeout callback of handleIncomingFileRequest.  React runs the
\* updater passed to setPendingIncomingFiles at once when nothing is queued
\* for the component (eager: the state it computed is committed by the next
\* render), or else in the next render.
BatchTimerFires(timer, eager) ==
  /\ timer \in appTimers
  /\ appTimers' = appTimers \ {timer}
  /\ batchTimer' = 0
  /\ IF incomingBatchBuffer # << >>
     THEN \* updateState()
          /\ hasShownDialog' = TRUE
          /\ alog' = [NoAppLog EXCEPT !.kind = "expiry", !.burst = burst,
                        !.updates = 1, !.copied = IdsOf(incomingBatchBuffer),
                        !.merged = (eager /\ stateQueue = << >>)]
          /\ IF eager /\ stateQueue = << >>
             THEN /\ stateQueue' =
                       << [kind |-> "set",
                           files |-> MergeById(pendingIncomingFiles,
                                               incomingBatchBuffer)] >>
                  /\ incomingBatchBuffer' = << >>
             ELSE /\ stateQueue' =
                       Append(stateQueue, [kind |-> "merge",
                                           files |-> incomingBatchBuffer])
                  /\ UNCHANGED incomingBatchBuffer
     ELSE \* 'Timer fired but buffer is empty, skipping update'
          /\ alog' = [NoAppLog EXCEPT !.kind = "expiry", !.burst = burst]
          /\ UNCHANGED << hasShownDialog, incomingBatchBuffer, stateQueue >>
  /\ UNCHANGED << pendingFileRequests, pendingIncomingFiles, offers, burst,
                  dialogRev, isVisible, selectedFiles, dialogTimers,
                  decisions >>
  /\ UNCHANGED << call, relayVars, protocolVars >>

\* React renders App: the queued updates are applied in order.  The dialog is
\* mounted while pendingIncomingFiles is not empty, and its effect on [files]
\* shows it with every file selected.
Render ==
  /\ stateQueue # << >>
  /\ LET r == ApplyQueue(stateQueue, pendingIncomingFiles, incomingBatchBuffer)
     IN  /\ pendingIncomingFiles' = r.files
         /\ incomingBatchBuffer' = r.buffer
         /\ isVisible' = (r.files # << >>)
         /\ selectedFiles' = IdsOf(r.files)
  /\ stateQueue' = << >>
  /\ alog' = [NoAppLog EXCEPT !.kind = "render",
                !.merged = (\E i \in 1..Len(stateQueue) :
                              stateQueue[i].kind = "merge")]
  /\ UNCHANGED << pendingFileRequests, batchTimer, hasShownDialog, appTimers,
                  offers, burst, dialogRev, dialogTimers, decisions >>
  /\ UNCHANGED << call, relayVars, protocolVars >>

\* IncomingFilesDialog.toggleFileSelection(fileId)
ToggleFileSelection(fileId) ==
  /\ isVisible
  /\ fileId \in IdsOf(pendingIncomingFiles)
  /\ selectedFiles' = IF fileId \in selectedFiles
                      THEN selectedFiles \ {fileId}
                      ELSE selectedFiles \cup {fileId}
  /\ alog' = [NoAppLog EXCEPT !.kind = "toggle"]
  /\ UNCHANGED << pendingFileRequests, incomingBatchBuffer, batchTimer,
                  hasShownDialog, pendingIncomingFiles, stateQueue, appTimers,
                  offers, burst, dialogRev, isVisible, dialogTimers,
                  decisions >>
  /\ UNCHANGED << call, relayVars, protocolVars >>

\* IncomingFilesDialog.handleAccept (the button is disabled while nothing is
\* selected) and handleRejectAll / handleReject: hide the dialog and start a
\* 300 ms timer whose callback keeps the files and the selection of this
\* render
DialogClick(how) ==
  /\ isVisible
  /\ how = "accept" => selectedFiles # {}
  /\ isVisible' = FALSE
  /\ dialogTimers' = Append(dialogTimers,
                            [how |-> how, files |-> pendingIncomingFiles,
                             selected |-> selectedFiles])
  /\ alog' = [NoAppLog EXCEPT !.kind = "click"]
  /\ UNCHANGED << pendingFileRequests, incomingBatchBuffer, batchTimer,
                  hasShownDialog, pendingIncomingFiles, stateQueue, appTimers,
                  offers, burst, dialogRev, selectedFiles, decisions >>
  /\ UNCHANGED << call, relayVars, protocolVars >>

\* files.filter(f => keep.has(f.id))
RECURSIVE FilterFiles(_, _)
FilterFiles(files, keep) ==
  IF files = << >> THEN << >>
  ELSE IF Head(files).id \in keep
       THEN << Head(files) >> \o FilterFiles(Tail(files), keep)
       ELSE FilterFiles(Tail(files), keep)

\* The refs and the queue of the App as one value, for the handlers that run
\* one after the other in one task
AppNow ==
  [requests |-> pendingFileRequests, buffer |-> incomingBatchBuffer,
   timer |-> batchTimer, timers |-> appTimers, shown |-> hasShownDialog,
   queue |-> stateQueue, decisions |-> decisions]

\* files.forEach(file => { request = requests.get(file.id); if (request) {
\* request.onAccept() or request.onReject(); requests.delete(file.id) } })
RECURSIVE DecideEach(_, _, _)
DecideEach(a, files, callback) ==
  IF files = << >> THEN a
  ELSE LET id == Head(files).id
           n  == a.requests[id]
           b  == IF n = 0 THEN a
                 ELSE [a EXCEPT !.decisions[n] = Append(@, callback),
                                !.requests[id] = 0]
       IN  DecideEach(b, Tail(files), callback)

\* handleAcceptFiles(selectedFiles)
handleAcceptFiles(a, files) ==
  LET b == DecideEach(a, files, "accept")
  IN  [b EXCEPT !.queue = Append(@, [kind |-> "set", files |-> << >>]),
                !.buffer = << >>,
                !.shown = FALSE,
                !.timers = @ \ {b.timer},
                !.timer = 0]

\* handleRejectFiles(rejectedFiles)
handleRejectFiles(a, files) ==
  LET b == DecideEach(a, files, "reject")
  IN  [b EXCEPT !.queue = Append(@, [kind |-> "set", files |-> << >>]),
                !.shown = FALSE]

\* the callback of the dialog's 300 ms timer
DialogCallback(a, d) ==
  IF d.how = "accept"
  THEN LET selectedFilesList == FilterFiles(d.files, d.selected)
           rejectedFilesList == FilterFiles(d.files, IdsOf(d.files) \ d.selected)
           b == handleAcceptFiles(a, selectedFilesList)
       IN  IF dialogRev = "first" /\ rejectedFilesList # << >>
           THEN handleRejectFiles(b, rejectedFilesList)
           ELSE b
  ELSE handleRejectFiles(a, d.files)

\* the oldest dialog timer fires
DialogTimerFires ==
  /\ dialogTimers # << >>
  /\ LET d == Head(dialogTimers)
         r == DialogCallback(AppNow, d)
     IN  /\ pendingFileRequests' = r.requests
         /\ incomingBatchBuffer' = r.buffer
         /\ batchTimer' = r.timer
         /\ appTimers' = r.timers
         /\ hasShownDialog' = r.shown
         /\ stateQueue' = r.queue
         /\ decisions' = r.decisions
         /\ alog' = [NoAppLog EXCEPT !.kind = "decide", !.how = d.how,
                       !.files = d.files,
                       !.selected = IF d.how = "accept" THEN d.selected ELSE {}]
  /\ dialogTimers' = Tail(dialogTimers)
  /\ UNCHANGED << pendingIncomingFiles, offers, burst, dialogRev, isVisible,
                  selectedFiles >>
  /\ UNCHANGED << call, relayVars, protocolVars >>

\* the page runs the App of the lib revision
InitApp == InitOf("any", DialogRevs) /\ impl = "lib"

NextApp ==
  \/ \E id \in TransferIds : OfferArrives(id)
  \/ \E timer \in 1..MaxOffers, eager \in BOOLEAN : BatchTimerFires(timer, eager)
  \/ Render
  \/ \E fileId \in TransferIds : ToggleFileSelection(fileId)
  \/ \E how \in {"accept", "reject"} : DialogClick(how)
  \/ DialogTimerFires

SpecApp == InitApp /\ [][NextApp]_vars

(* ----------------------------- the relay server ----------------------- *)
\* An id `${n}` is written n; 0 is a value that is no id.  A message is the
\* value JSON.parse returns for a text JSON.stringify produced, as the
\* clients send it; ws.send on a socket that is not open delivers nothing.
StampedAsSent(msg, id) == msg
\* { ...msg, from: id }
Stamped(msg, id) == [msg EXCEPT !.from = id]

\* users.map(u => ({ id: u.id, name: u.name }))
UserList(us) == [i \in 1..Len(us) |-> [id |-> us[i].id, name |-> us[i].name]]

\* broadcastUsers(): the [to, message] pairs it sends, for the list us and
\* the socket states rs
broadcastUsers(us, rs) ==
  LET userList == UserList(us)
      RECURSIVE Sends(_)
      Sends(i) ==
        IF i > Len(us) THEN << >>
        ELSE (IF rs[us[i].id] = "OPEN"
              THEN << [to |-> us[i].id,
                       message |-> [type |-> "users", users |-> userList]] >>
              ELSE << >>) \o Sends(i + 1)
  IN  Sends(1)

\* wss.on('connection'): name is the random display name
Connection(name) ==
  /\ idCounter <= MaxConns
  /\ LET id == idCounter
         us == Append(users, [id |-> id, name |-> name])
         rs == [wsReadyState EXCEPT ![id] = "OPEN"]
     IN  /\ idCounter' = idCounter + 1
         /\ users' = us
         /\ wsReadyState' = rs
         /\ assigned' = assigned \cup {id}
         /\ relog' = [NoRelayLog EXCEPT
                        !.kind = "connection", !.id = id,
                        !.sent = << [to |-> id,
                                     message |-> [type |-> "init", id |-> id,
                                                  name |-> name]] >>
                                 \o broadcastUsers(us, rs),
                        !.roster = UserList(us)]
  /\ UNCHANGED << call, appVars, protocolVars >>

\* ws.on('message') of connection id, for a message that parses to msg
Message(id, msg) ==
  /\ wsReadyState[id] = "OPEN"
  /\ LET found == {i \in 1..Len(users) : users[i].id = msg.to}
         target == users[CHOOSE i \in found : \A j \in found : i <= j]
     IN  relog' = [relog EXCEPT
                     !.kind = "message", !.id = id, !.msg = msg,
                     !.sent = IF found # {} /\ wsReadyState[target.id] = "OPEN"
                              THEN << [to |-> target.id,
                                       message |-> Stamped(msg, id)] >>
                              ELSE << >>]
  /\ UNCHANGED << users, idCounter, wsReadyState, assigned >>
  /\ UNCHANGED << call, appVars, protocolVars >>

\* the socket of connection id starts to close (its close event comes later)
SocketCloses(id) ==
  /\ wsReadyState[id] = "OPEN"
  /\ wsReadyState' = [wsReadyState EXCEPT ![id] = "CLOSING"]
  /\ relog' = [relog EXCEPT !.kind = "none", !.id = 0, !.msg = << >>,
                            !.sent = << >>]
  /\ UNCHANGED << users, idCounter, assigned >>
  /\ UNCHANGED << call, appVars, protocolVars >>

FilterUsersKeeps(us, id) == us
\* users.filter(u => u.id !== id)
FilterUsers(us, id) == SelectSeq(us, LAMBDA u : u.id # id)

\* ws.on('close') of connection id
Close(id) ==
  /\ wsReadyState[id] \in {"OPEN", "CLOSING"}
  /\ LET us == FilterUsers(users, id)
         rs == [wsReadyState EXCEPT ![id] = "CLOSED"]
     IN  /\ users' = us
         /\ wsReadyState' = rs
         /\ relog' = [NoRelayLog EXCEPT !.kind = "close", !.id = id,
                                        !.sent = broadcastUsers(us, rs),
                                        !.roster = UserList(us)]
  /\ UNCHANGED << idCounter, assigned >>
  /\ UNCHANGED << call, appVars, protocolVars >>

InitRelay == InitWith("any") /\ impl = "lib"

\* the clients' messages: a type, a payload field, any `to` and any `from`
NextRelay ==
  \/ \E name \in {"Device-100", "Device-101"} : Connection(name)
  \/ \E id \in 1..MaxConns,
          msg \in {[type |-> "offer", offer |-> 7, to |-> to, from |-> from] :
                     to \in 0..MaxConns, from \in 0..MaxConns} :
       Message(id, msg)
  \/ \E id \in 1..MaxConns : SocketCloses(id)
  \/ \E id \in 1..MaxConns : Close(id)

SpecRelay == InitRelay /\ [][NextRelay]_vars

(* --------------------- the pure helpers on their own ------------------ *)
\* ids: "t1", "e-acute", "euro sign", an emoji (a surrogate pair), and "t"
\* after a byte order mark U+FEFF
ShortIds ==
  {<< 116, 49 >>, << 233 >>, << 8364 >>, << 55357, 56832 >>, << 65279, 116 >>}
\* ids of 65535 and of 65536 letters "a"
LongIds == {[i \in 1..n |-> 97] : n \in {65535, 65536}}
\* chunk indices: the first two and 2^31 - 1, the largest integer of the
\* model checker (the field holds up to 2^32 - 1)
FrameIndices == {0, 1, 2147483647}
ShortPayloads == {<< >>, << 7 >>, << 7, 8 >>}
\* a payload of CHUNK_SIZE bytes
FullPayload == [i \in 1..CHUNK_SIZE |-> i % 256]
\* the arguments encodeChunkFrame is called with
EncodeInputs ==
  (ShortIds \X FrameIndices \X ShortPayloads)
  \cup (LongIds \X {0} \X {<< 7 >>})
  \cup ({<< 116, 49 >>} \X {0} \X {FullPayload})
\* the arguments splitFileIntoChunks is called with
SplitInputs ==
  ((0..MaxSplitSize) \X (1..MaxSplitChunk))
  \cup ({0, CHUNK_SIZE - 1, CHUNK_SIZE, CHUNK_SIZE + 1, 2 * CHUNK_SIZE, 40960}
        \X {CHUNK_SIZE})


\* encodeChunkFrame(id, index, payload), as the first call; nothing in it
\* throws
CallEncode(id, index, payload) ==
  /\ call.fn = "none"
  /\ call' = [NoCall EXCEPT !.fn = "encode", !.id = id, !.index = index,
                            !.payload = payload,
                            !.buffer = encodeChunkFrameOfString(id, index, payload)]
  /\ UNCHANGED << protocolVars, appVars, relayVars >>

\* the result of decodeChunkFrame(buffer) in the call record c
Decoded(c, buffer, whole) ==
  LET d == decodeChunkFrameToString(buffer)
  IN  [c EXCEPT !.fn = "decode", !.buffer = buffer, !.whole = whole,
                !.ok = d.ok, !.outId = d.transferId, !.outIndex = d.chunkIndex,
                !.outPayload = d.payload]

\* decodeChunkFrame of the frame the last call encoded
CallDecode ==
  /\ call.fn = "encode"
  /\ call' = Decoded(call, call.buffer, TRUE)
  /\ UNCHANGED << protocolVars, appVars, relayVars >>

\* decodeChunkFrame of the first n bytes of the frame the last call encoded
CallDecodeCut(n) ==
  /\ call.fn = "encode"
  /\ n < Len(call.buffer)
  /\ n <= MaxHead \/ n >= Len(call.buffer) - MaxCut
  /\ call' = Decoded(call, SubSeq(call.buffer, 1, n), FALSE)
  /\ UNCHANGED << protocolVars, appVars, relayVars >>

\* splitFileIntoChunks(file, chunkSize) and buildFileMetadata(file)
CallSplit(size, chunkSize) ==
  /\ call.fn = "none"
  /\ call' = [NoCall EXCEPT !.fn = "split", !.size = size,
                            !.chunkSize = chunkSize,
                            !.chunks = splitFileIntoChunks(size, chunkSize),
                            !.totalChunks =
                               Len(splitFileIntoChunks(size, CHUNK_SIZE))]
  /\ UNCHANGED << protocolVars, appVars, relayVars >>

InitPure == InitWith("any")

NextPure ==
  \/ \E input \in EncodeInputs : CallEncode(input[1], input[2], input[3])
  \/ CallDecode
  \/ \E n \in 0..(Len(call.buffer) - 1) : CallDecodeCut(n)
  \/ \E input \in SplitInputs : CallSplit(input[1], input[2])

SpecPure == InitPure /\ [][NextPure]_vars

(* ------------------------------- claims ------------------------------- *)
\* the keys of pendingAcks that belong to transfer t
KeysOf(t) == {k \in DOMAIN pendingAcks : k[1] = t}
\* the chunk indices of transfer t sent and not acknowledged
Unacked(t) == snd[t].sentIdx \ snd[t].ackedIdx

\* C1: flow control.  In every reachable state and for every outgoing
\* transfer, at most one chunk index has been sent without its chunk-ack
\* having been received, and pendingAcks holds at most one key of the
\* transfer.
C1_FlowControl ==
  \A t \in TransferIds :
     /\ Cardinality(Unacked(t)) <= 1
     /\ Cardinality(KeysOf(t)) <= 1
     /\ KeysOf(t) \subseteq {<< t, i >> : i \in Unacked(t)}

\* two transfers each with a wait pending, one of them retrying its second
\* chunk after the first was acknowledged
C1_Witness ==
  \E t, u \in TransferIds :
     /\ t # u
     /\ snd[t].pc = "waiting" /\ snd[t].index = 1 /\ snd[t].attempt >= 1
     /\ snd[t].ackedIdx = {0}
     /\ KeysOf(t) = {<< t, 1 >>}
     /\ KeysOf(u) = {<< u, 0 >>}

\* C2: retry bound.  When every wait for the ack of chunk i timed out, the
\* call has sent the frame of chunk i once per attempt, never waits a seventh
\* time, and when it has thrown it has sent that frame exactly
\* RETRY_LIMIT + 1 times, threw the timeout error, and sent no frame of a
\* chunk after i.
C2_RetryBound ==
  \A t \in TransferIds :
     /\ snd[t].sends <= RETRY_LIMIT + 1
     /\ snd[t].pc = "waiting" => snd[t].attempt <= RETRY_LIMIT
     /\ snd[t].pc = "waiting" /\ snd[t].onlyTimeouts
          => snd[t].sends = snd[t].attempt + 1
     /\ snd[t].pc = "failed" /\ snd[t].onlyTimeouts
          => /\ snd[t].sends = RETRY_LIMIT + 1
             /\ snd[t].err = "timeout"
             /\ \A j \in snd[t].sentIdx : j <= snd[t].index

\* a call that threw after nothing but ack timeouts on its second chunk
C2_Witness ==
  \E t \in TransferIds :
     /\ snd[t].pc = "failed" /\ snd[t].onlyTimeouts
     /\ snd[t].index = 1 /\ snd[t].sends = RETRY_LIMIT + 1
     /\ chan = "open"

\* C3: idempotence.  A chunk frame for an index 0..totalChunks-1 handled for
\* the first time since its transfer was stored raises the counters and is
\* acknowledged; every later frame for the same index (the last-arriving
\* index included) leaves the counters alone and is acknowledged too.
C3_Idempotent ==
  rlog.kind = "chunk" =>
     /\ rlog.first => rlog.counted /\ rlog.acked
     /\ rlog.dup => ~rlog.counted /\ rlog.acked

\* C4: completeness.  The file is never delivered while a slot
\* 0..totalChunks-1 is empty, and a transfer is not kept stored once a frame
\* has been handled for every index 0..totalChunks-1.
C4_Complete ==
  /\ rlog.kind = "chunk" /\ rlog.finalized => ~rlog.missing
  /\ \A id \in DOMAIN incomingTransfers :
        \E i \in 0..(incomingTransfers[id].metadata.totalChunks - 1) :
           << id, i >> \notin seen

\* has the receiving page accepted transfer t (stored it with accepted set,
\* or already delivered its file)
AcceptedByReceiver(t) ==
  \/ t \in DOMAIN incomingTransfers /\ incomingTransfers[t].accepted
  \/ received[t] # << >>

\* C5: no data before consent.  With the consent revision (lib/peer.js) on
\* both pages, no chunk frame of a transfer has been sent unless the receiver
\* has accepted the transfer.
C5_NoDataBeforeConsent ==
  impl = "lib" =>
     \A t \in TransferIds : snd[t].sentIdx # {} => AcceptedByReceiver(t)

\* C6: sender abort on rejection.  Once the sending page has handled
\* transfer-rejected for transfer t, no ack of t is pending, the call is not
\* waiting for an ack of t, and if it has ended it ended as rejected.
C6_AbortOnReject ==
  \A t \in rejectedSeen :
     /\ KeysOf(t) = {}
     /\ snd[t].pc # "waiting"
     /\ snd[t].pc \in {"done", "failed"}
          => snd[t].pc = "failed" /\ snd[t].err = "rejected"

\* C7: channel close fails all waits.  After the close event pendingAcks is
\* empty and no call is left waiting for an ack.
C7_CloseFailsWaits ==
  chan = "closed" =>
     /\ DOMAIN pendingAcks = {}
     /\ \A t \in TransferIds : snd[t].pc # "waiting"

\* C8: scenario D.  A call that was waiting for the ack of chunk k when the
\* channel closed has, once that wait is over, seen it fail with the
\* channel-closed error, thrown, surfaced an error, sent no chunk after k
\* and left no entry in outgoingTransfers.
C8_CloseMidTransfer ==
  \A t \in TransferIds :
     snd[t].atClose = "waiting" /\ snd[t].pc # "waiting"
       => /\ snd[t].waitErr = "closed"
          /\ snd[t].pc = "failed"
          /\ surfaced[t] >= 1
          /\ \A j \in snd[t].sentIdx : j <= snd[t].index
          /\ t \notin DOMAIN outgoingTransfers

\* C9: exactly one surfaced error.  No transfer surfaces two errors, and a
\* call that threw surfaced one.
C9_OneError ==
  \A t \in TransferIds :
     /\ surfaced[t] <= 1
     /\ snd[t].pc = "failed" => surfaced[t] = 1

\* C10: slot monotonicity.  While a transfer stays stored, no step changes a
\* filled slot or lowers receivedChunks or receivedBytes.
C10_SlotMonotonic ==
  [][\A id \in (DOMAIN incomingTransfers) \cap (DOMAIN incomingTransfers') :
       LET old == incomingTransfers[id]
           new == incomingTransfers'[id]
       IN  /\ \A i \in 0..(Len(old.chunks) - 1) :
                ~Falsy(ArrayGet(old.chunks, i))
                  => ArrayGet(new.chunks, i) = ArrayGet(old.chunks, i)
           /\ new.receivedChunks >= old.receivedChunks
           /\ new.receivedBytes >= old.receivedBytes]_vars

\* the slots of a chunks array that hold a buffer
FilledSlots(chunks) == {i \in 1..Len(chunks) : ~Falsy(chunks[i])}
\* the sum of the byte lengths of the buffers in a chunks array
RECURSIVE FilledBytes(_)
FilledBytes(chunks) ==
  IF chunks = << >> THEN 0
  ELSE (IF Falsy(Head(chunks)) THEN 0 ELSE Len(Head(chunks)))
       + FilledBytes(Tail(chunks))

\* C11: receiver accounting.  In every state and for every stored incoming
\* transfer, receivedChunks is the number of filled slots and receivedBytes
\* the sum of their byte lengths; and a step delivers a file only for a
\* stored transfer whose count, with the slot that step fills, is
\* metadata.totalChunks.
C11_Accounting ==
  /\ [](\A id \in DOMAIN incomingTransfers :
          LET transfer == incomingTransfers[id]
          IN  /\ transfer.receivedChunks = Cardinality(FilledSlots(transfer.chunks))
              /\ transfer.receivedBytes = FilledBytes(transfer.chunks))
  /\ [][\A id \in TransferIds :
          received'[id] # received[id]
            => /\ id \in DOMAIN incomingTransfers
               /\ rlog'.counted
               /\ incomingTransfers[id].receivedChunks + 1
                    = incomingTransfers[id].metadata.totalChunks]_vars

\* one file was delivered, and the other transfer holds one counted chunk of
\* one byte whose frame has just arrived again
C11_Witness ==
  \E id, other \in TransferIds :
     /\ received[other] # << >>
     /\ id \in DOMAIN incomingTransfers
     /\ incomingTransfers[id].receivedChunks = 1
     /\ incomingTransfers[id].receivedBytes = 1
     /\ rlog.kind = "chunk" /\ rlog.transferId = id /\ rlog.dup /\ ~rlog.counted

\* has the receiving page no accepted entry for transfer id
NoConsent(id) ==
  \/ id \notin DOMAIN incomingTransfers
  \/ impl = "lib" /\ ~incomingTransfers[id].accepted

\* C12: chunks without consent are dropped.  A step in which the receiving
\* page takes from the channel and handles a chunk frame whose transfer id has no entry in incomingTransfers, or an entry
\* that is not accepted, leaves incomingTransfers and the delivered files as
\* they were, sends nothing, and causes no progress event, no chunk-ack and
\* no chunk-error.
C12_DropWithoutConsent ==
  [][toRcv # << >> /\ toRcv' = Tail(toRcv) /\ chan' = "open"
       /\ Head(toRcv).kind = "bin" /\ decodeChunkFrame(Head(toRcv).bytes).ok
       /\ NoConsent(decodeChunkFrame(Head(toRcv).bytes).transferId)
     => /\ incomingTransfers' = incomingTransfers
        /\ received' = received
        /\ toSnd' = toSnd
        /\ rlog'.kind = "chunk"
        /\ ~rlog'.acked /\ ~rlog'.counted /\ ~rlog'.finalized]_vars

\* a chunk frame of the transfer arrived before the receiving page stored
\* it and was dropped
C12_Witness ==
  /\ rlog.kind = "chunk" /\ ~rlog.acked /\ ~rlog.counted
  /\ rlog.transferId \in TransferIds
  /\ rlog.transferId \notin DOMAIN incomingTransfers
  /\ received[rlog.transferId] = << >>
  /\ snd[rlog.transferId].sentIdx # {}
  /\ toSnd = << >>

\* C13: strict in-order delivery.  For every outgoing transfer the chunk
\* indices sent so far are an initial segment 0..n of the indices, none above
\* the current index, with every index below the current one acknowledged, and a step changes the current index only from n to n + 1
\* and only when the chunk-ack of n has resolved the wait for n; a timeout
\* or an error leaves the index where it is.
C13_InOrder ==
  /\ [](\A t \in TransferIds :
          /\ snd[t].ackedIdx \subseteq snd[t].sentIdx
          /\ snd[t].sentIdx \subseteq 0..snd[t].index
          /\ snd[t].pc = "waiting" => snd[t].sentIdx = 0..snd[t].index
          /\ 0..(snd[t].index - 1) \subseteq snd[t].ackedIdx)
  /\ [][\A t \in TransferIds :
          /\ snd'[t].sentIdx # snd[t].sentIdx
               => snd'[t].sentIdx = snd[t].sentIdx \cup {snd'[t].index}
          /\ snd'[t].index # snd[t].index
               => /\ snd'[t].index = snd[t].index + 1
                  /\ snd[t].pc = "waiting"
                  /\ << t, snd[t].index >> \in DOMAIN pendingAcks
                  /\ << t, snd[t].index >> \notin DOMAIN pendingAcks'
                  /\ snd[t].index \in snd'[t].ackedIdx
                  /\ snd'[t].waitErr = snd[t].waitErr]_vars

\* one transfer still on chunk 0 after two failed waits, another on chunk 1
\* with chunk 0 acknowledged
C13_Witness ==
  \E t, u \in TransferIds :
     /\ snd[t].pc = "waiting" /\ snd[t].index = 0 /\ snd[t].attempt >= 2
     /\ snd[t].sentIdx = {0} /\ snd[t].ackedIdx = {}
     /\ snd[u].pc = "waiting" /\ snd[u].index = 1
     /\ snd[u].sentIdx = {0, 1} /\ snd[u].ackedIdx = {0}

\* is message the transfer-complete of transfer t
IsComplete(message, t) ==
  message.kind = "text" /\ message.type = "transfer-complete"
    /\ message.transferId = t
\* the positions of the channel towards the receiver holding it
CompletesInFlight(t) == {p \in 1..Len(toRcv) : IsComplete(toRcv[p], t)}

\* does the step put transfer-complete of transfer t on the channel
SendsComplete(t) ==
  /\ toRcv' # << >> /\ toRcv' # toRcv
  /\ toRcv = << >> \/ toRcv' # Tail(toRcv)
  /\ IsComplete(toRcv'[Len(toRcv')], t)

C15_NoLeak ==
  impl = "legacy" =>
     \A t \in TransferIds :
        snd[t].pc \in {"done", "failed"}
          => /\ t \notin DOMAIN outgoingTransfers
             /\ KeysOf(t) = {}
             /\ snd[t].pc = "failed" => surfaced[t] >= 1

\* C15 ends the claims about the protocol; the next ones are about the codec.

\* C16: codec round trip.  Decoding the frame encoded from an id of at most
\* 65535 UTF-8 bytes, an index in 0..2^32-1 (here: up to 2^31-1) and a
\* payload of at most 16384 bytes returns that id, that index and that
\* payload.
C16_RoundTrip ==
  call.fn = "decode" /\ call.whole
    /\ Len(TextEncode(call.id)) <= 65535
    /\ call.index \in 0..2147483647
    /\ Len(call.payload) <= CHUNK_SIZE
  => /\ call.ok
     /\ call.outId = call.id
     /\ call.outIndex = call.index
     /\ call.outPayload = call.payload

\* the lengths a buffer's header declares (0 where the header is cut)
DeclaredLength(buffer) ==
  IF Len(buffer) < 10 THEN 10
  ELSE 10 + GetU16(buffer, 0) + GetU32(buffer, 6)

\* C17: decode rejects truncated frames.  decodeChunkFrame fails for every
\* buffer shorter than 10 + idLength + payloadLength as its header declares.
C17_RejectsTruncated ==
  call.fn = "decode" /\ Len(call.buffer) < DeclaredLength(call.buffer)
    => ~call.ok

\* C18: encode rejects oversized ids.  encodeChunkFrame produces no frame
\* for an id of more than 65535 UTF-8 bytes, and the id-length field of a
\* frame it produces is the number of id bytes in the frame.
C18_RejectsOversizedId ==
  call.fn = "encode" /\ call.buffer # << >>
    => /\ Len(TextEncode(call.id)) <= 65535
       /\ GetU16(call.buffer, 0) = Len(TextEncode(call.id))

\* the number of bytes of a chunk
RangeLen(range) == range.end - range.start
RECURSIVE SumOfLengths(_)
SumOfLengths(ranges) ==
  IF ranges = << >> THEN 0 ELSE RangeLen(Head(ranges)) + SumOfLengths(Tail(ranges))

\* C19: chunking.  For a file of s >= 0 bytes and a chunk size c > 0,
\* splitFileIntoChunks returns max(1, ceil(s / c)) chunks: byte ranges that
\* start at 0, each beginning where the one before ends, each of at most c
\* bytes and all but the last of exactly c, with lengths that sum to s;
\* buildFileMetadata's totalChunks is the count for the default chunk size;
\* 40 KB in 16 KB chunks gives 16 KB, 16 KB, 8 KB.
C19_Chunking ==
  call.fn = "split" =>
    LET n == Len(call.chunks)
        whole == call.size \div call.chunkSize
        ceiling == IF call.size % call.chunkSize = 0 THEN whole ELSE whole + 1
    IN  /\ n = IF ceiling < 1 THEN 1 ELSE ceiling
        /\ call.chunks[1].start = 0
        /\ call.chunks[n].end = call.size
        /\ \A k \in 1..(n - 1) : call.chunks[k].end = call.chunks[k + 1].start
        /\ \A k \in 1..n : RangeLen(call.chunks[k]) \in 0..call.chunkSize
        /\ \A k \in 1..(n - 1) : RangeLen(call.chunks[k]) = call.chunkSize
        /\ SumOfLengths(call.chunks) = call.size
        /\ call.chunkSize = CHUNK_SIZE => call.totalChunks = n
        /\ call.size = 40960 /\ call.chunkSize = CHUNK_SIZE
             => [k \in 1..n |-> RangeLen(call.chunks[k])] = << 16384, 16384, 8192 >>

\* the 40 KB file was split with the default chunk size
C19_Witness ==
  /\ call.fn = "split" /\ call.size = 40960 /\ call.chunkSize = CHUNK_SIZE
  /\ Len(call.chunks) = 3 /\ call.totalChunks = 3

\* C20: batching.  At most one debounce timer is pending, the one
\* batchTimerRef names; and when it expires, setPendingIncomingFiles is called
\* exactly once with every offer that arrived while the timer was pending.
C20_Batching ==
  /\ Cardinality(appTimers) <= 1
  /\ appTimers = IF batchTimer = 0 THEN {} ELSE {batchTimer}
  /\ alog.kind = "expiry" => alog.updates = 1 /\ alog.burst \subseteq alog.copied

\* the files of the batch a dialog timer has just decided
DecidedBatch == {alog.files[i] : i \in 1..Len(alog.files)}

\* C21: per-file decision.  When the user decides a presented batch, every
\* file of the batch has exactly one callback invoked, once: onAccept for a
\* selected file, onReject for every other; and no offer is decided twice.
C21_PerFileDecision ==
  /\ \A n \in 1..MaxOffers : Len(decisions[n]) <= 1
  /\ alog.kind = "decide" =>
       \A f \in DecidedBatch :
         decisions[f.offer] =
           << IF f.id \in alog.selected THEN "accept" ELSE "reject" >>

\* C22: aggregator reset.  After handleAcceptFiles or handleRejectFiles has
\* run, the presented list is empty (once React has applied the update), the
\* buffer is empty, no debounce timer is pending, the has-shown-dialog flag is
\* false and no callbacks are held for the files of the decided batch.
C22_Reset ==
  alog.kind = "decide" =>
    /\ ApplyQueue(stateQueue, pendingIncomingFiles, incomingBatchBuffer).files
         = << >>
    /\ incomingBatchBuffer = << >>
    /\ batchTimer = 0 /\ appTimers = {}
    /\ ~hasShownDialog
    /\ \A f \in DecidedBatch : pendingFileRequests[f.id] = 0

\* no two entries of a list of files have the same id
UniqueIds(files) == Cardinality(IdsOf(files)) = Len(files)

\* C23: union by id.  Neither the buffer nor the presented list ever holds
\* two entries with one id; merging the buffer into the presented list gives
\* one entry per id, the buffer's entry taking the place of a presented entry
\* with its id; and the buffer is empty right after each merge.
C23_UnionById ==
  /\ UniqueIds(incomingBatchBuffer)
  /\ UniqueIds(pendingIncomingFiles)
  /\ LET merged == MergeById(pendingIncomingFiles, incomingBatchBuffer)
     IN  /\ UniqueIds(merged)
         /\ IdsOf(merged) = IdsOf(pendingIncomingFiles) \cup IdsOf(incomingBatchBuffer)
         /\ \A i \in 1..Len(incomingBatchBuffer) :
              \E j \in 1..Len(merged) : merged[j] = incomingBatchBuffer[i]
         /\ \A i \in 1..Len(pendingIncomingFiles) :
              merged[i].id = pendingIncomingFiles[i].id
  /\ alog.merged => incomingBatchBuffer = << >>

\* a render has merged a second offer of a presented id into the list, with
\* no decision taken in between: the entry is the second offer's
C23_Witness ==
  /\ alog.kind = "render" /\ alog.merged
  /\ offers = 2
  /\ pendingIncomingFiles = << FileData(1, 2) >>
  /\ dialogTimers = << >>
  /\ \A n \in 1..MaxOffers : decisions[n] = << >>

\* C24: receiver accept/reject (lib/peer.js).  After an accepted offer the
\* transfer is stored accepted, with totalChunks empty slots and both counters
\* 0, and one transfer-accepted was sent if the channel is open; after a
\* rejected offer one transfer-rejected with a reason was sent (if the channel
\* is open) and incomingTransfers holds no entry for the id.
C24_AcceptReject ==
  rlog.kind = "file-metadata" /\ impl = "lib" =>
    LET id == rlog.transferId
    IN  IF rlog.userAccepted
        THEN /\ id \in DOMAIN incomingTransfers
             /\ incomingTransfers[id].accepted
             /\ incomingTransfers[id].chunks =
                  NullArray(incomingTransfers[id].metadata.totalChunks)
             /\ incomingTransfers[id].receivedChunks = 0
             /\ incomingTransfers[id].receivedBytes = 0
             /\ chan = "open" =>
                  rlog.sent = << Ctl("transfer-accepted", id, Undef) >>
        ELSE /\ chan = "open" =>
                  /\ Len(rlog.sent) = 1
                  /\ rlog.sent[1].type = "transfer-rejected"
                  /\ rlog.sent[1].transferId = id
                  /\ rlog.sent[1].reason # ""
             /\ id \notin DOMAIN incomingTransfers

\* the slots 0..totalChunks-1 of a stored transfer once payload is in slot
\* chunkIndex
SlotsWith(transfer, chunkIndex, payload) ==
  [i \in 1..transfer.metadata.totalChunks |->
     IF i - 1 = chunkIndex THEN payload ELSE ArrayGet(transfer.chunks, i - 1)]

\* C25: finalization.  A file is delivered at most once per transfer; the
\* step that fills the last empty slot of 0..totalChunks-1 delivers the file;
\* and a step that delivers a file delivers the concatenation of the slots
\* 0..totalChunks-1, all filled, in index order, and removes the transfer
\* from incomingTransfers.
C25_Finalization ==
  /\ [](\A id \in TransferIds : Len(received[id]) <= 1)
  /\ [][\A id \in DOMAIN incomingTransfers :
          LET transfer == incomingTransfers[id]
              empty == {i \in 0..(transfer.metadata.totalChunks - 1) :
                          Falsy(ArrayGet(transfer.chunks, i))}
          IN  /\ ( /\ rlog'.kind = "chunk" /\ rlog'.transferId = id
                   /\ rlog'.counted /\ empty = {rlog'.chunkIndex} )
                   => received'[id] # received[id]
              /\ received'[id] # received[id]
                   => /\ id \notin DOMAIN incomingTransfers'
                      /\ \E payload \in PeerPayloads :
                           LET slots == SlotsWith(transfer, rlog'.chunkIndex, payload)
                           IN  /\ \A i \in 1..Len(slots) : ~Falsy(slots[i])
                               /\ received'[id] = Append(received[id], BlobOf(slots))
        ]_vars

\* C26: malformed chunk frame.  When handleIncomingChunk throws, the receive
\* handler sends one chunk-error carrying the error text and nothing else
\* (no chunk-ack), leaves incomingTransfers and the delivered files as they
\* were, and lets no exception escape, also when the send of chunk-error
\* fails.
C26_MalformedFrame ==
  /\ [](rlog.kind = "chunk-error" =>
          /\ ~rlog.threw
          /\ rlog.sent = IF rlog.sendFailed THEN << >>
                         ELSE << ChunkErrorMsg(DecodeError) >>
          /\ DecodeError # "")
  /\ [][rlog'.kind = "chunk-error" =>
          /\ incomingTransfers' = incomingTransfers
          /\ received' = received]_vars

\* a frame that cannot be decoded was handled while a transfer holds a
\* counted chunk, and the send of chunk-error failed
C26_Witness ==
  /\ rlog.kind = "chunk-error" /\ rlog.sendFailed
  /\ \E id \in DOMAIN incomingTransfers : incomingTransfers[id].receivedChunks = 1

\* C27: explicit error triggers retry.  When a chunk-error for the chunk a
\* call is waiting on is handled, the wait fails at once with the reported
\* reason: the attempt is counted, and the same chunk is sent again unless
\* the retry limit is passed.
C27_ErrorRetries ==
  [][slog'.kind = "chunk-error" =>
       LET t == slog'.transferId
       IN  /\ snd'[t].waitErr = "chunk-error"
           /\ snd'[t].index = snd[t].index
           /\ snd'[t].attempt = snd[t].attempt + 1
           /\ IF snd'[t].attempt > RETRY_LIMIT
              THEN snd'[t].pc = "failed"
              ELSE /\ snd'[t].pc = "waiting"
                   /\ snd'[t].sends = snd[t].sends + 1]_vars

\* C28: stale or duplicate acks are harmless.  A chunk-ack whose
\* (transferId, chunkIndex) has no record in pendingAcks changes neither
\* pendingAcks nor outgoingTransfers nor any call or timer of the sending
\* page, and surfaces no error.
C28_StaleAck ==
  [][slog'.kind = "stale-ack" =>
       UNCHANGED << snd, pendingAcks, timers, outgoingTransfers, surfaced,
                    rejectedSeen >>]_vars

\* a stale ack was handled while both transfers wait for an ack, one of them
\* after a timeout
C28_Witness ==
  /\ slog.kind = "stale-ack"
  /\ \A t \in TransferIds : snd[t].pc = "waiting"
  /\ \E t \in TransferIds : snd[t].attempt = 1 /\ snd[t].waitErr = "timeout"

\* is id the id of a user whose socket is open
Connected(id) ==
  /\ \E i \in 1..Len(users) : users[i].id = id
  /\ wsReadyState[id] = "OPEN"

\* C29: relay forwarding.  A message whose `to` names a connected peer is
\* sent once, to that peer only, with every field as the client sent it
\* except `from`, which is the id the relay assigned to the sending
\* connection; a message whose `to` names no connected peer is sent to nobody;
\* and a message changes no state of the relay.
C29_Forwarding ==
  /\ [](relog.kind = "message" =>
          IF Connected(relog.msg.to)
          THEN /\ Len(relog.sent) = 1
               /\ relog.sent[1].to = relog.msg.to
               /\ relog.sent[1].message.from = relog.id
               /\ relog.sent[1].message.type = relog.msg.type
               /\ relog.sent[1].message.offer = relog.msg.offer
               /\ relog.sent[1].message.to = relog.msg.to
               /\ DOMAIN relog.sent[1].message = DOMAIN relog.msg
          ELSE relog.sent = << >>)
  /\ [][relog'.kind = "message" =>
          UNCHANGED << users, idCounter, wsReadyState, assigned >>]_vars

\* a client sent a message with the `from` of another connected user, and it
\* was forwarded to a third
C29_Witness ==
  /\ relog.kind = "message"
  /\ relog.msg.from # relog.id /\ Connected(relog.msg.from)
  /\ relog.msg.to # relog.id /\ relog.msg.to # relog.msg.from
  /\ Len(relog.sent) = 1

\* C30: relay roster.  Every connection gets an id that was never assigned
\* before; every connect and every close sends the roster to exactly the
\* open connections; and the roster of the most recent broadcast lists
\* exactly the connections that are connected (accepted and not yet closed),
\* once each.
C30_Roster ==
  /\ [][relog'.kind = "connection" /\ idCounter' # idCounter =>
          relog'.id \notin assigned]_vars
  /\ [](LET listed == {relog.roster[i].id : i \in 1..Len(relog.roster)}
            rosters == {i \in 1..Len(relog.sent) :
                          relog.sent[i].message.type = "users"}
        IN  /\ listed = {id \in 1..MaxConns :
                           wsReadyState[id] \in {"OPEN", "CLOSING"}}
            /\ Cardinality(listed) = Len(relog.roster)
            /\ relog.kind \in {"connection", "close"} =>
                 /\ {relog.sent[i].to : i \in rosters} =
                      {id \in 1..MaxConns : wsReadyState[id] = "OPEN"}
                 /\ Cardinality(rosters) =
                      Cardinality({relog.sent[i].to : i \in rosters})
                 /\ \A i \in rosters :
                      relog.sent[i].message.users = relog.roster)

\* a connection closed while one of the remaining two was closing and the
\* other was open
C30_Witness ==
  /\ relog.kind = "close"
  /\ Len(users) = 2
  /\ \E i \in 1..2 : wsReadyState[users[i].id] = "CLOSING"
  /\ Len(relog.sent) = 1

\* C31: send always terminates.  When every armed ack timer fires unless it
\* is cleared (and every chunk read settles), every call of
\* sendChunksOverDataChannel ends, by returning or by throwing, whatever the
\* peer sends and whenever the channel closes.
C31_Terminates ==
  \A t \in TransferIds :
    (snd[t].pc \in {"reading", "waiting"}) ~> (snd[t].pc \in {"done", "failed"})

\* a call threw after all its waits for the first chunk ended in ack timeouts,
\* and another call returned
C31_Witness ==
  \E t, u \in TransferIds :
    /\ snd[t].pc = "failed" /\ snd[t].onlyTimeouts
    /\ snd[t].attempt = RETRY_LIMIT + 1
    /\ snd[u].pc = "done"

\* C32: pendingAck lifecycle.  pendingAcks holds a record for a key exactly
\* while a wait for that key is pending, and the record is that wait's; every
\* armed timer is the timer of the pending wait of its key, so when a record
\* is registered no timer of an earlier wait for the key is left to fire;
\* and a wait that has settled never pends again.
C32_Lifecycle ==
  /\ [](/\ \A key \in DOMAIN pendingAcks :
             Awaits(key[1], key[2], pendingAcks[key])
        /\ \A t \in TransferIds :
             snd[t].pc = "waiting" =>
               /\ << t, snd[t].index >> \in DOMAIN pendingAcks
               /\ pendingAcks[<< t, snd[t].index >>] = snd[t].attempt
        /\ \A tm \in timers :
             /\ << tm[1], tm[2] >> \in DOMAIN pendingAcks
             /\ pendingAcks[<< tm[1], tm[2] >>] = tm[3])
  /\ [][\A t \in TransferIds :
          snd[t].pc = "waiting" /\ snd'[t].pc = "waiting" =>
            \/ snd'[t].index > snd[t].index
            \/ snd'[t].index = snd[t].index /\ snd'[t].attempt >= snd[t].attempt]_vars

\* a retry of a chunk waits for its ack after an earlier wait for the same
\* chunk was rejected by a chunk-error, and another after a timeout
C32_Witness ==
  \E t, u \in TransferIds :
    /\ snd[t].pc = "waiting" /\ snd[t].attempt >= 1
    /\ snd[t].waitErr = "chunk-error"
    /\ snd[u].pc = "waiting" /\ snd[u].attempt >= 1
    /\ snd[u].waitErr = "timeout"

C34_Bookkeeping ==
  /\ [](\A t \in DOMAIN outgoingTransfers :
          /\ outgoingTransfers[t].nextChunkIndex
               = outgoingTransfers[t].lastAckedIndex + 1
          /\ outgoingTransfers[t].lastAckedIndex >= -1
          /\ outgoingTransfers[t].lastAckedIndex <= ChunkCount(snd[t]) - 1)
  /\ [][/\ \A t \in (DOMAIN outgoingTransfers') \ DOMAIN outgoingTransfers :
             outgoingTransfers'[t].lastAckedIndex = -1
        /\ \A t \in (DOMAIN outgoingTransfers') \cap DOMAIN outgoingTransfers :
             IF snd'[t].ackedIdx # snd[t].ackedIdx
             THEN /\ outgoingTransfers'[t].lastAckedIndex
                       = outgoingTransfers[t].lastAckedIndex + 1
                  /\ snd'[t].ackedIdx
                       = snd[t].ackedIdx \cup {outgoingTransfers'[t].lastAckedIndex}
             ELSE outgoingTransfers'[t].lastAckedIndex
                    = outgoingTransfers[t].lastAckedIndex]_vars

\* the second chunk of a transfer is being retried after its first chunk was
\* acknowledged
C34_Witness ==
  \E t \in DOMAIN outgoingTransfers :
    /\ outgoingTransfers[t].lastAckedIndex = 0
    /\ snd[t].pc = "waiting" /\ snd[t].attempt >= 1

C36_ReceiverOrder ==
  [][/\ incomingTransfers' # incomingTransfers
     /\ rlog'.kind = "chunk" /\ rlog'.counted
     =>
       LET id == rlog'.transferId
           before == incomingTransfers[id]
           chunks == before.receivedChunks + 1
           bytes == before.receivedBytes + rlog'.payloadSize
           complete == chunks = before.metadata.totalChunks
       IN  /\ rlog'.steps = IF complete
                            THEN << "store", "progress", "ack", "finalize" >>
                            ELSE << "store", "progress", "ack" >>
           /\ rlog'.progress[1].receivedChunks = chunks
           /\ rlog'.progress[1].receivedBytes = bytes
           /\ rlog'.progress[1].chunkIndex = rlog'.chunkIndex
           /\ Len(rlog'.sent) = 1
           /\ rlog'.sent[1].type = "chunk-ack"
           /\ rlog'.sent[1].transferId = id
           /\ rlog'.sent[1].chunkIndex = rlog'.chunkIndex
           /\ rlog'.sent[1].receivedChunks = chunks
           /\ rlog'.sent[1].receivedBytes = bytes
           /\ IF complete
              THEN /\ id \notin DOMAIN incomingTransfers'
                   /\ Len(received'[id]) = Len(received[id]) + 1
              ELSE /\ incomingTransfers'[id].receivedChunks = chunks
                   /\ incomingTransfers'[id].receivedBytes = bytes
                   /\ incomingTransfers'[id].chunks
                        # incomingTransfers[id].chunks
                   /\ received' = received]_vars

\* the progress callback threw on the chunk that completed a two-chunk file
C36_Witness ==
  /\ rlog.kind = "chunk" /\ rlog.counted /\ rlog.callbackThrew
  /\ rlog.finalized
  /\ rlog.progress[1].receivedChunks = 2
  /\ Len(received[rlog.transferId]) = 1

\* C37: end-to-end agreement.  Between two pages of this program, over an
\* ordered channel that may lose, delay or duplicate acks: every chunk whose
\* ack the sending call has taken is stored by the receiving page with the
\* bytes of that chunk, unless the file was already delivered; and when the
\* call has returned, the receiving page has delivered the file once, with
\* the bytes of the file that was sent.
C37_Agreement ==
  \A t \in TransferIds :
    /\ \A n \in snd[t].ackedIdx :
         \/ /\ t \in DOMAIN incomingTransfers
            /\ ArrayGet(incomingTransfers[t].chunks, n)
                 = ChunkOf(snd[t].size, ChunkSize, n)
         \/ received[t] # << >>
    /\ snd[t].pc = "done" => received[t] = << FileBytes(snd[t].size) >>

\* the call returned for a two-chunk file although an ack was delivered to
\* it that no longer had a wait
C37_Witness ==
  /\ snd[1].pc = "done"
  /\ snd[1].size = MaxFileSize
  /\ slog.kind = "stale-ack"
  /\ received[1] = << FileBytes(MaxFileSize) >>

\* C38: metadata/chunk race (legacy).  A chunk frame that arrives before the
\* file-metadata of its transfer is dropped: no ack is sent and no state is
\* created; no transfer is stored, and so no chunk kept, while its metadata
\* is still in the relay; a frame that arrives after the metadata and finds
\* its slot empty is stored and acknowledged; a call that returns has had
\* its file delivered once with the bytes sent; and when the channel stays
\* open, the reads succeed and the call does not run out of attempts, a
\* transfer whose first chunk was dropped early is completed.
C38_MetadataRace ==
  /\ [][/\ impl = "legacy" /\ chan' = "open"
        /\ toRcv # << >> /\ toRcv' = Tail(toRcv)
        /\ Head(toRcv).kind = "bin"
        =>
          LET d == decodeChunkFrame(Head(toRcv).bytes)
          IN  IF d.transferId \notin DOMAIN incomingTransfers
              THEN /\ toSnd' = toSnd
                   /\ incomingTransfers' = incomingTransfers
                   /\ received' = received
              ELSE Falsy(ArrayGet(incomingTransfers[d.transferId].chunks,
                                  d.chunkIndex))
                     => /\ Len(toSnd') = Len(toSnd) + 1
                        /\ toSnd'[Len(toSnd')].type = "chunk-ack"
                        /\ toSnd'[Len(toSnd')].transferId = d.transferId
                        /\ toSnd'[Len(toSnd')].chunkIndex = d.chunkIndex
                        /\ IF d.transferId \in DOMAIN incomingTransfers'
                           THEN ArrayGet(incomingTransfers'[d.transferId].chunks,
                                         d.chunkIndex) = d.payload
                           ELSE received'[d.transferId] # << >>]_vars
  /\ [](impl = "legacy" =>
          \A t \in TransferIds :
            /\ (t \in DOMAIN incomingTransfers \/ received[t] # << >>)
                 => snd[t].pc # "idle" /\ relay = << >>
            /\ snd[t].pc = "done" => received[t] = << FileBytes(snd[t].size) >>)
  /\ (/\ WF_vars(ReadChunk(1))
      /\ \A i \in 0..MaxIndex, a \in 0..RETRY_LIMIT : WF_vars(AckTimeout(1, i, a))
      /\ WF_vars(DeliverToReceiver(TRUE))
      /\ WF_vars(DeliverToSender)
      /\ WF_vars(RelayDelivers)
      /\ [](chan = "open" /\ snd[1].pc # "failed"))
     => ((impl = "legacy" /\ rlog.kind = "chunk" /\ ~rlog.acked
            /\ relay # << >>)
           ~> (snd[1].pc = "done"))

\* the first chunk was dropped because the metadata was still in the relay,
\* and its retry is already on the channel
C38_Witness ==
  /\ impl = "legacy"
  /\ rlog.kind = "chunk" /\ rlog.chunkIndex = 0 /\ ~rlog.acked
  /\ relay # << >>
  /\ 1 \notin DOMAIN incomingTransfers
  /\ snd[1].pc = "waiting" /\ snd[1].attempt = 1
  /\ toRcv # << >>

\* C39: no offer is lost by the aggregator.  When the App has come to rest
\* (no debounce timer and no dialog timer is armed, no state update is
\* queued, the buffer is empty and no batch is presented), every offer that
\* reached handleIncomingFileRequest has been decided and
\* pendingFileRequestsRef holds no callbacks: no offer is left that can no
\* longer be shown.
C39_NoOfferLost ==
  (/\ appTimers = {} /\ dialogTimers = << >> /\ stateQueue = << >>
   /\ incomingBatchBuffer = << >> /\ pendingIncomingFiles = << >>)
  => /\ \A id \in TransferIds : pendingFileRequests[id] = 0
     /\ \A n \in 1..offers : decisions[n] # << >>

\* C40: no entry of incomingTransfers is ever marked completed, and no chunk
\* frame is ever acknowledged by the branch of handleIncomingChunk for a
\* completed transfer.
C40_NeverCompleted ==
  /\ \A id \in DOMAIN incomingTransfers : ~incomingTransfers[id].completed
  /\ rlog.steps # << "ack-completed" >>

\* a frame arrived for a transfer whose file had been delivered: it found no
\* entry and was not acknowledged
C40_Witness ==
  /\ rlog.kind = "chunk"
  /\ received[rlog.transferId] # << >>
  /\ rlog.transferId \notin DOMAIN incomingTransfers
  /\ ~rlog.acked /\ rlog.sent = << >>

====
